---------------------------- MODULE Spec2Model ----------------------------
(***************************************************************************)
(* A model of the differential-execution engine of compiler-io-eval:       *)
(*   - runner.run_safe / runner.create_and_run  (sandboxed worker)         *)
(*   - evaluation.Generator                      (example generation)      *)
(*   - evaluation.Evaluator.check_example        (value comparison)        *)
(*   - examples.form / examples.parse            (example codec)           *)
(* Each component has its own specification over the shared variables.     *)
(***************************************************************************)
EXTENDS Integers, Sequences, FiniteSets, TLC

(***************************************************************************)
(* Bounds of the model.                                                    *)
(***************************************************************************)
MaxTrials == 2

\* longest list of examples handed to Evaluator.check or to examples.form
MaxExamples == 2

\* the declared size of the string parameter the model generates and packs
\* (the `size s, 10` of a props file, scaled down)
StrSize == 2

\* largest n passed to Generator.generate
MaxN == 2

\* Randomiser.defaults["int"] is (0, 10); the model draws from 0..MaxRandomInt
MaxRandomInt == 2

(***************************************************************************)
(* Optional values: None is the empty sequence, Some(v) the singleton.     *)
(***************************************************************************)
None == <<>>

Some(v) == <<v>>

(***************************************************************************)
(* Processes that can hold native code.                                    *)
(***************************************************************************)
Driver == "driver"

Worker == "worker"

VARIABLES
    \* ---- run_safe / create_and_run -------------------------------------
    trial,      \* index of the current run_safe call
    ppc,        \* position of the parent inside run_safe
    timedOut,   \* p.join(timeout) returned because the timeout elapsed
    seenExit,   \* the value of p.exitcode read at runner.py:431
    workers,    \* per trial: the worker process spawned by that call
    ret,        \* what run_safe returned (None, or Some(<<val, outputs>>))
    raised,     \* the exception run_safe raised, "none" if it did not
    \* ---- Generator.generate ---------------------------------------------
    ref,        \* the Function the Generator was built on (its parameters, constraints)
    gpc,        \* position of the driver inside create_from / Generator.generate
    n,          \* the argument of generate
    examples,   \* the local list `examples` of generate
    fails,      \* the local counter `fails` of generate
    rejected,   \* number of generate_single calls that returned None so far
    crashedAt,  \* Some(len(examples)) at the moment FunctionRunError was raised
    gret,       \* what generate returned (None before it returns)
    graised,    \* the exception generate let through to its caller, "none" if none
    order,      \* the keys of the last dict generate_input returned, in insertion order
    \* ---- Evaluator.check -------------------------------------------------
    batch,      \* the examples handed to Evaluator.check
    epc,        \* position of the driver inside Evaluator.check
    idx,        \* number of examples of the batch processed so far
    passes,     \* the local counter `passes` of check
    failures,   \* the local list `failures` of check
    log,        \* per processed example: what the candidate produced, and the verdict
    result,     \* the Result check returned (None before it returns)
    cand,       \* the candidate the Evaluator was built on
    static,     \* the candidate's static counter in the library loaded by the driver
    first,      \* the Result of the previous call of check on this Evaluator
    \* ---- examples.form / examples.parse --------------------------------
    cref,       \* the reference whose examples are written: parameters, type, outputs
    cbatch,     \* the ExampleInstances handed to form
    clines,     \* the lines form returned: the signature line, then one per instance
    cout,       \* the list parse returned
    craised,    \* the exception parse raised, "none" if it did not
    cpc,        \* position of the caller: before form, before parse, after parse
    \* ---- eval.test / ReferenceResult.partition --------------------------
    fetched,    \* what fetch yields: per reference its examples and its candidates
    tpc,        \* position of the driver inside test / partition
    ridx,       \* number of references test has gone through
    iidx,       \* number of candidates of the current reference evaluated so far
    cur,        \* the Results of the current reference collected so far
    tresults,   \* the local list `results` of test
    partitions, \* the local dict `partitions` of partition
    pidx,       \* number of results partition has placed
    \* ---- load_reference / Function.__init__ ------------------------------
    lsig,       \* the signature of the reference: its parameters and its type
    linfo,      \* the FunctionInfo of the reference: its outputs and its sizes
    lraised,    \* the exception load_reference or Function(...) raised, "none" if none
    lpc,        \* position of the caller: reference parsed; load_reference returned
                \* or raised; Function(...) built or not built
    \* ---- two seeded runs of generation -----------------------------------
    sref,       \* the Function both runs generate inputs for
    sseed,      \* per run: the seed the caller passed to set_seed
    srun,       \* the run under way (1, then 2)
    srng,       \* the state of Python's global random generator: seed and position
    sstream,    \* per run: the seed the generator had when its first input was asked for
    sdrawn,     \* per run: the input bindings generated so far
    spc,        \* position of the run: start, seeded, generating, done
    \* ---- Parameter.pack / Parameter.unpack ------------------------------
    kparam,     \* the Parameter pack and unpack are called on
    knative,    \* the native value handed to pack
    kforeign,   \* the foreign value pack returned (None before it returns)
    kback,      \* the native value unpack returned (None before it returns)
    kpc,        \* position of the caller: before pack, before unpack, after unpack
    \* ---- address spaces -------------------------------------------------
    loaded,     \* processes in which ctypes.CDLL(lib_path) was performed
    called      \* processes in which the native symbol was invoked

runVars == <<trial, ppc, timedOut, seenExit, workers, ret, raised>>

genVars == <<ref, gpc, n, examples, fails, rejected, crashedAt, gret, graised, order>>

evalVars == <<batch, epc, idx, passes, failures, log, result, cand, static, first>>

codecVars == <<cref, cbatch, clines, cout, craised, cpc>>

testVars == <<fetched, tpc, ridx, iidx, cur, tresults, partitions, pidx>>

loadVars == <<lsig, linfo, lraised, lpc>>

seedVars == <<sref, sseed, srun, srng, sstream, sdrawn, spc>>

packVars == <<kparam, knative, kforeign, kback, kpc>>

procVars == <<loaded, called>>

\* what the steps of run_safe and of its worker leave alone
notRun == <<seedVars, loadVars, packVars, genVars, evalVars, codecVars, testVars>>

\* what the steps of the Generator leave alone
notGen == <<seedVars, loadVars, packVars, runVars, evalVars, codecVars, testVars>>

\* what the steps of the Evaluator leave alone
notEval == <<seedVars, loadVars, packVars, runVars, genVars, codecVars, testVars>>

\* what form and parse leave alone
notCodec == <<seedVars, loadVars, packVars, runVars, genVars, evalVars, testVars, procVars>>

\* what load_reference and Function.__init__ leave alone
notLoad == <<seedVars, packVars, runVars, genVars, evalVars, codecVars, testVars>>

\* what the seeded runs leave alone
notSeed == <<loadVars, packVars, runVars, genVars, evalVars, codecVars, testVars, procVars>>

\* what pack and unpack leave alone
notPack == <<seedVars, loadVars, runVars, genVars, evalVars, codecVars, testVars, procVars>>

\* what test and partition leave alone
notTest == <<seedVars, loadVars, packVars, runVars, genVars, evalVars, codecVars, procVars>>

(***************************************************************************)
(* The worker: runner.create_and_run executed in a child process.          *)
(* beh is what the native code does on this input:                         *)
(*   "ok"    the call returns val                                          *)
(*   "raise" Function.run raises FunctionRunError (uncaught: exit code 1)  *)
(*   "segv"  the native code crashes (exit code -11, killed by SIGSEGV)    *)
(*   "loop"  the native code never returns                                 *)
(***************************************************************************)
Behaviours == {"ok", "raise", "segv", "loop"}

NativeVals == {1, 2}

NoWorker == [pc |-> "none", beh |-> "ok", val |-> 1,
             qbuf |-> <<>>, pipe |-> <<>>, exitcode |-> None]

Alive(w) == w.pc \notin {"none", "exited"}

Trials == 1..MaxTrials

\* runner.py:423-427  q = Queue(); p = Process(target=create_and_run, ...); p.start()
p_start ==
    /\ ppc = "idle"
    /\ trial < MaxTrials
    /\ \E b \in Behaviours, v \in NativeVals :
          workers' = [workers EXCEPT ![trial + 1] =
                         [NoWorker EXCEPT !.pc = "init", !.beh = b, !.val = v]]
    /\ trial' = trial + 1
    /\ ppc' = "joining"
    /\ ret' = None
    /\ raised' = "none"
    /\ seenExit' = None
    /\ timedOut' = FALSE
    /\ UNCHANGED <<procVars, notRun>>

\* runner.py:403  func = Function(reference, path_to_lib, ...) inside the worker:
\* Function.__init__ performs ctypes.CDLL(lib_path) (runner.py:200)
worker_Function(t) ==
    /\ workers[t].pc = "init"
    /\ workers' = [workers EXCEPT ![t].pc = "run"]
    /\ loaded' = loaded \cup {Worker}
    /\ UNCHANGED <<trial, ppc, timedOut, seenExit, ret, raised, called, notRun>>

\* runner.py:405  val = func.run(inputs): the native call, in the worker
worker_run(t) ==
    /\ workers[t].pc = "run"
    /\ called' = called \cup {Worker}
    /\ workers' = [workers EXCEPT ![t] =
          CASE @.beh = "ok"    -> [@ EXCEPT !.pc = "put"]
            [] @.beh = "raise" -> [@ EXCEPT !.pc = "exited", !.exitcode = Some(1)]
            [] @.beh = "segv"  -> [@ EXCEPT !.pc = "exited", !.exitcode = Some(-11)]
            [] @.beh = "loop"  -> [@ EXCEPT !.pc = "spinning"]]
    /\ UNCHANGED <<trial, ppc, timedOut, seenExit, ret, raised, loaded, notRun>>

\* runner.py:406-408  outputs = func.outputs(); queue.put((val, outputs)):
\* put() appends to the queue's buffer, from which the feeder thread writes
put_item(w) == <<w.val, [out |-> w.val]>>

\* create_and_run returning without enqueueing its result
worker_put_forgotten(t) ==
    /\ workers[t].pc = "put"
    /\ workers' = [workers EXCEPT ![t].pc = "flush"]
    /\ UNCHANGED <<trial, ppc, timedOut, seenExit, ret, raised, procVars, notRun>>

worker_put(t) ==
    /\ workers[t].pc = "put"
    /\ workers' = [workers EXCEPT ![t].pc = "flush",
                                  ![t].qbuf = Append(@, put_item(workers[t]))]
    /\ UNCHANGED <<trial, ppc, timedOut, seenExit, ret, raised, procVars, notRun>>

\* the queue's feeder thread moves the buffered items into the pipe
worker_feed(t) ==
    /\ workers[t].pc = "flush"
    /\ workers[t].qbuf # <<>>
    /\ workers' = [workers EXCEPT ![t].pipe = @ \o workers[t].qbuf,
                                  ![t].qbuf = <<>>]
    /\ UNCHANGED <<trial, ppc, timedOut, seenExit, ret, raised, procVars, notRun>>

\* create_and_run returns; the process exits with status 0 once the queue's
\* finalizer has joined the feeder thread (nothing is left in the buffer)
worker_exit(t) ==
    /\ workers[t].pc = "flush"
    /\ workers[t].qbuf = <<>>
    /\ workers' = [workers EXCEPT ![t].pc = "exited", ![t].exitcode = Some(0)]
    /\ UNCHANGED <<trial, ppc, timedOut, seenExit, ret, raised, procVars, notRun>>

\* runner.py:428-429  p.join(timeout): returns when the worker has exited ...
p_join_exited ==
    /\ ppc = "joining"
    /\ ~Alive(workers[trial])
    /\ ppc' = "check"
    /\ UNCHANGED <<trial, timedOut, seenExit, workers, ret, raised, procVars, notRun>>

\* ... or when the 2 seconds have elapsed with the worker still alive
p_join_timeout ==
    /\ ppc = "joining"
    /\ Alive(workers[trial])
    /\ ppc' = "check"
    /\ timedOut' = TRUE
    /\ UNCHANGED <<trial, seenExit, workers, ret, raised, procVars, notRun>>

\* the test of the exit code taking any exit for a success
p_exitcode_any_exit ==
    /\ ppc = "check"
    /\ seenExit' = workers[trial].exitcode
    /\ ppc' = IF workers[trial].exitcode # None THEN "get" ELSE "close"
    /\ UNCHANGED <<trial, timedOut, workers, ret, raised, procVars, notRun>>

\* runner.py:431  if p.exitcode == 0:   (exitcode polls the process)
p_exitcode ==
    /\ ppc = "check"
    /\ seenExit' = workers[trial].exitcode
    /\ ppc' = IF workers[trial].exitcode = Some(0) THEN "get" ELSE "close"
    /\ UNCHANGED <<trial, timedOut, workers, ret, raised, procVars, notRun>>

\* multiprocessing.Queue.get_nowait on the parent's end of the pipe
get_nowait(pipe) ==
    IF pipe = <<>> THEN [raised |-> "Empty", ret |-> None]
    ELSE [raised |-> "none", ret |-> Some(Head(pipe))]

\* runner.py:432-433  p.close(); return q.get_nowait()
p_get ==
    /\ ppc = "get"
    /\ LET r == get_nowait(workers[trial].pipe) IN
          /\ ret' = r.ret
          /\ raised' = r.raised
          /\ ppc' = IF r.raised = "none" THEN "returned" ELSE "raised"
          /\ workers' = [workers EXCEPT ![trial].pipe =
                            IF @ = <<>> THEN @ ELSE Tail(@)]
    /\ UNCHANGED <<trial, timedOut, seenExit, procVars, notRun>>

\* Process.close() raises ValueError while the process is still running
p_close(w) == IF Alive(w) THEN "ValueError" ELSE "none"

\* runner.py:435-438  p.close(); log a warning; return None
p_fail ==
    /\ ppc = "close"
    /\ raised' = p_close(workers[trial])
    /\ ret' = None
    /\ ppc' = IF p_close(workers[trial]) = "none" THEN "returned" ELSE "raised"
    /\ UNCHANGED <<trial, timedOut, seenExit, workers, procVars, notRun>>

\* control is back in the caller, which may go on to the next trial
next_trial ==
    /\ ppc \in {"returned", "raised"}
    /\ trial < MaxTrials
    /\ ppc' = "idle"
    /\ UNCHANGED <<trial, timedOut, seenExit, workers, ret, raised, procVars, notRun>>

(***************************************************************************)
(* The signature / constraint model (reference_parser.py, runner.py).      *)
(***************************************************************************)
\* reference_parser.py:43-49  CType(contents, pointer_level)
CType(contents, pointer_level) ==
    [contents |-> contents, pointer_level |-> pointer_level]

\* reference_parser.py:341-348  ParamConstraint(var, op, val)
ParamConstraint(var, op, val) == [var |-> var, op |-> op, val |-> val]

\* reference_parser.py:363-368  GlobalContstraint(predicate); the predicates
\* of the model compare two parameters: "lhs op rhs"
GlobalContstraint(lhs, op, rhs) == [lhs |-> lhs, op |-> op, rhs |-> rhs]

\* reference_parser.py:227-253  VarSize(arr, var) and ConstSize(arr, size)
VarSize(arr, var) == [kind |-> "VarSize", arr |-> arr, var |-> var, size |-> 0]

ConstSize(arr, size) == [kind |-> "ConstSize", arr |-> arr, var |-> "", size |-> size]

\* runner.py:17-30  Parameter(name, type, is_output, constraints, size)
Parameter(name, type, is_output, constraints, size) ==
    [name |-> name, type |-> type, is_output |-> is_output,
     constraints |-> constraints, size |-> size]

\* runner.py:117-118  Parameter.is_array
is_array(param) == param.type.pointer_level = 1

\* the comparison operators a constraint may use (reference_parser.py:327)
Compare(a, op, b) ==
    CASE op = "<"  -> a < b
      [] op = "<=" -> a <= b
      [] op = ">"  -> a > b
      [] op = ">=" -> a >= b
      [] op = "==" -> a = b
      [] op = "!=" -> a # b

\* reference_parser.py:350-351  ParamConstraint.satisfied
ParamConstraint_satisfied(constraint, inputs) ==
    Compare(inputs[constraint.var], constraint.op, constraint.val)

\* reference_parser.py:370-371  GlobalContstraint.satisfied
GlobalContstraint_satisfied(constraint, inputs) ==
    Compare(inputs[constraint.lhs], constraint.op, inputs[constraint.rhs])

Range(seq) == {seq[i] : i \in DOMAIN seq}

\* Function.satisfied with the parameter constraints left out
satisfied_globals_only(function, inputs) ==
    \A constraint \in Range(function.constraints) :
        GlobalContstraint_satisfied(constraint, inputs)

\* runner.py:308-322  Function.satisfied
satisfied(function, inputs) ==
    IF function.constraints = <<>>
       /\ \A parameter \in Range(function.parameters) : parameter.constraints = <<>>
    THEN TRUE
    ELSE /\ \A constraint \in Range(function.constraints) :
               GlobalContstraint_satisfied(constraint, inputs)
         /\ \A parameter \in Range(function.parameters) :
               \A constraint \in Range(parameter.constraints) :
                   ParamConstraint_satisfied(constraint, inputs)

\* the parameters in declared order, arrays not moved behind the scalars
safe_parameters_as_declared(function) == function.parameters

\* runner.py:261-281  Function.safe_parameters
safe_parameters(function) ==
    LET scalars == SelectSeq(function.parameters, LAMBDA param : ~is_array(param))
        arrays  == SelectSeq(function.parameters, is_array)
    IN scalars \o arrays

(***************************************************************************)
(* The functions the Generator is run on.                                  *)
(***************************************************************************)
\* int f(int a, int b)   constraint a >= 1   constraint { a < b }
FunctionAB ==
    [name |-> "f_ab", type |-> CType("int", 0),
     parameters |-> << Parameter("a", CType("int", 0), FALSE,
                                 <<ParamConstraint("a", ">=", 1)>>, None),
                       Parameter("b", CType("int", 0), FALSE, <<>>, None) >>,
     constraints |-> << GlobalContstraint("a", "<", "b") >>]

\* int f(int x)          no constraint
FunctionX ==
    [name |-> "f_x", type |-> CType("int", 0),
     parameters |-> << Parameter("x", CType("int", 0), FALSE, <<>>, None) >>,
     constraints |-> <<>>]

\* void f(int *arr, int n)   output arr   size arr, n   constraint n <= 1
FunctionArr ==
    [name |-> "f_arr", type |-> CType("void", 0),
     parameters |-> << Parameter("arr", CType("int", 1), TRUE, <<>>,
                                 Some(VarSize("arr", "n"))),
                       Parameter("n", CType("int", 0), FALSE,
                                 <<ParamConstraint("n", "<=", 1)>>, None) >>,
     constraints |-> <<>>]

\* void f(int *p, int m, int *q, int k)   size p, m   size q, 0
\* constraint m <= 0   constraint k <= 0
FunctionMix ==
    [name |-> "f_mix", type |-> CType("void", 0),
     parameters |-> << Parameter("p", CType("int", 1), FALSE, <<>>,
                                 Some(VarSize("p", "m"))),
                       Parameter("m", CType("int", 0), FALSE,
                                 <<ParamConstraint("m", "<=", 0)>>, None),
                       Parameter("q", CType("int", 1), FALSE, <<>>,
                                 Some(ConstSize("q", 0))),
                       Parameter("k", CType("int", 0), FALSE,
                                 <<ParamConstraint("k", "<=", 0)>>, None) >>,
     constraints |-> <<>>]

\* void f(int *a, int *b)   size a, b   size b, 0
FunctionSizedByArray ==
    [name |-> "f_sized_by_array", type |-> CType("void", 0),
     parameters |-> << Parameter("a", CType("int", 1), FALSE, <<>>,
                                 Some(VarSize("a", "b"))),
                       Parameter("b", CType("int", 1), FALSE, <<>>,
                                 Some(ConstSize("b", 0))) >>,
     constraints |-> <<>>]

\* int f(int e)   constraint e <= 0   constraint e >= 1
FunctionEmptyRange ==
    [name |-> "f_empty_range", type |-> CType("int", 0),
     parameters |-> << Parameter("e", CType("int", 0), FALSE,
                                 << ParamConstraint("e", "<=", 0),
                                    ParamConstraint("e", ">=", 1) >>, None) >>,
     constraints |-> <<>>]

\* void f(int *w)   size w, 1
FunctionConst ==
    [name |-> "f_const", type |-> CType("void", 0),
     parameters |-> << Parameter("w", CType("int", 1), FALSE, <<>>,
                                 Some(ConstSize("w", 1))) >>,
     constraints |-> <<>>]

\* void f(char *s)   size s, StrSize
FunctionStr ==
    [name |-> "f_str", type |-> CType("void", 0),
     parameters |-> << Parameter("s", CType("char", 1), FALSE, <<>>,
                                 Some(ConstSize("s", StrSize))) >>,
     constraints |-> <<>>]

\* reference_parser.py:540-608  FunctionReference.issues, on the parameters,
\* sizes and constraints a Function is built from
issues(function) ==
    LET params == Range(function.parameters)
        named(var) == {q \in params : q.name = var} IN
    {x \in {"ArrayReturnType"} : function.type.pointer_level # 0}
    \cup {"MultiLevelPointer" : q \in {x \in params : x.type.pointer_level > 1}}
    \cup {"ScalarGivenSize" : q \in {x \in params : ~is_array(x) /\ x.size # None}}
    \cup {"GivenInvalidSize" : q \in {x \in params :
              /\ x.size # None
              /\ IF x.size[1].kind = "VarSize"
                 THEN \E v \in named(x.size[1].var) : v.type.contents # "int"
                 ELSE x.size[1].size < 0}}
    \cup {"UnsizedArrayParameter" : q \in {x \in params :
              is_array(x) /\ x.size = None /\ x.type.contents # "char"}}
    \cup {"InvalidConstraint" : q \in {x \in params :
              \E c \in Range(x.constraints) :
                  /\ is_array(x) \/ x.type.contents = "char"
                  /\ c.op \notin {"==", "!="}}}

\* validate letting UnsizedArrayParameter through as well
ignorable_unsized == {"ScalarGivenSize", "UnsizedArrayParameter"}

\* reference_parser.py:36-40  the issues load_reference lets through
ignorable == {"ScalarGivenSize"}

\* reference_parser.py:619-632, 711-727  validate: load_reference returns the
\* reference only when no issue outside `ignorable` is left
validate(function) == issues(function) \subseteq ignorable

Functions ==
    {function \in {FunctionAB, FunctionX, FunctionArr, FunctionMix,
                    FunctionSizedByArray, FunctionEmptyRange,
                    FunctionConst, FunctionStr} : validate(function)}

(***************************************************************************)
(* evaluation.Generator                                                    *)
(***************************************************************************)
\* randomiser.py:17-26  Randomiser.random_int(min_val, max_val): the values
\* random.randint may return; the empty range raises ConstraintError
random_int(min_val, max_val) ==
    IF min_val > max_val THEN {} ELSE min_val..max_val

\* randomiser.py:50-57  Randomiser.random_char(): a character of the default
\* alphabet, of which the model keeps two letters
random_char == {"a", "b"}

\* randomiser.py:62-64  Randomiser.random_array(length, elem_gen)
random_array(length, elems) == [1..length -> elems]

\* reference_parser.py:235-253  VarSize.evaluate / ConstSize.evaluate
evaluate(size, values) ==
    IF size.kind = "VarSize" THEN values[size.var] ELSE size.size

\* get_size(None, values) drawing the size of a ConstSize array from 0..size+1
get_size_without_val_past_size(param, values) ==
    LET size == evaluate(param.size[1], values) IN
    IF param.size[1].kind = "ConstSize"
    THEN random_int(0, size + 1)
    ELSE {size}

\* runner.py:141-146  Parameter.get_size(None, values): the sizes it may return
get_size_without_val(param, values) ==
    LET size == evaluate(param.size[1], values) IN
    IF param.size[1].kind = "ConstSize"
    THEN random_int(0, size)
    ELSE {size}

\* evaluation.py:83-126  Generator.random: the values it may return
random(parameter, current) ==
    LET gen == IF parameter.type.contents = "char"
               THEN random_char ELSE random_int(0, MaxRandomInt) IN
    IF ~is_array(parameter)
    THEN gen
    ELSE UNION { random_array(size, gen) :
                   size \in get_size_without_val(parameter, current) }

\* the exception Generator.random raises, "none" when it returns a value:
\* VarSize.evaluate asserts `var in values` (reference_parser.py:237), and
\* random_array calls range(length) (randomiser.py:64), a TypeError when the
\* size variable is bound to a list
random_raises(function, parameter, current) ==
    IF ~is_array(parameter) \/ parameter.size[1].kind # "VarSize"
    THEN "none"
    ELSE IF parameter.size[1].var \notin DOMAIN current
    THEN "AssertionError"
    ELSE IF \E q \in Range(function.parameters) :
                q.name = parameter.size[1].var /\ is_array(q)
    THEN "TypeError"
    ELSE "none"

Bind(current, name, val) ==
    [x \in (DOMAIN current) \cup {name} |-> IF x = name THEN val ELSE current[x]]

\* a Python dict under construction: its mapping, its keys in insertion
\* order, and the exception that ended the construction ("none" if none)
Dict(inputs, keys, exc) == [inputs |-> inputs, order |-> keys, raised |-> exc]

\* evaluation.py:61-62  the loop of generate_input over the parameters left
RECURSIVE generate_input_from(_, _, _)
generate_input_from(function, params, made) ==
    IF params = <<>>
    THEN {made}
    ELSE IF random_raises(function, Head(params), made.inputs) # "none"
    THEN {Dict(made.inputs, made.order,
               random_raises(function, Head(params), made.inputs))}
    ELSE UNION { generate_input_from(function, Tail(params),
                     Dict(Bind(made.inputs, Head(params).name, val),
                          Append(made.order, Head(params).name), "none")) :
                   val \in random(Head(params), made.inputs) }

\* evaluation.py:58-64  Generator.generate_input: the dicts it may return,
\* and the exceptions it may raise
generate_input(function) ==
    generate_input_from(function, safe_parameters(function), Dict(<<>>, <<>>, "none"))

\* runner.py:251-259  Function.outputs after a run in which the native code
\* wrote `val` into every cell of every output array
outputs(function, inputs, val) ==
    LET outs == {param.name : param \in
                    {q \in Range(function.parameters) : q.is_output}}
    IN [name \in outs |-> [i \in DOMAIN inputs[name] |-> val]]

\* examples.py:14-21  ExampleInstance(inputs, value, outputs)
ExampleInstance(inputs, value, outs) ==
    [inputs |-> inputs, value |-> value, outputs |-> outs]

\* runner.py:224-249  the value Function.run returns when the native call
\* returns val: None for a void function (exe.restype = None, runner.py:214)
run_value(function, val) ==
    IF function.type = CType("void", 0) THEN None ELSE Some(val)

\* runner.py:345-380  create / create_from: compile, then Function(...), whose
\* __init__ performs ctypes.CDLL(lib_path) (runner.py:200) in the calling process
create_from ==
    /\ gpc = "create"
    /\ loaded' = loaded \cup {Driver}
    /\ gpc' = "idle"
    /\ UNCHANGED <<ref, n, examples, fails, rejected, crashedAt, gret, graised, called, order, notGen>>

\* evaluation.py:37-42  generate(n): assert n > 0; examples = []; fails = 0
generate ==
    /\ gpc = "idle"
    /\ \E k \in 1..MaxN : n' = k
    /\ examples' = <<>>
    /\ fails' = 0
    /\ gpc' = "loop"
    /\ UNCHANGED <<ref, rejected, crashedAt, gret, graised, procVars, order, notGen>>

\* the loop test with the fail budget off by one
loop_condition_off_by_one == fails <= n /\ Len(examples) < n

\* evaluation.py:44  while fails < max_fails and len(examples) < n   (max_fails = n)
loop_condition == fails < n /\ Len(examples) < n

\* evaluation.py:45,50-51 with 72-75: generate_single returns None because the
\* inputs do not satisfy the constraints
generate_single_rejected ==
    /\ gpc = "loop"
    /\ loop_condition
    /\ \E made \in generate_input(ref) :
          /\ made.raised = "none"
          /\ ~satisfied(ref, made.inputs)
          /\ order' = made.order
    /\ fails' = fails + 1
    /\ rejected' = rejected + 1
    /\ UNCHANGED <<ref, gpc, n, examples, crashedAt, gret, graised, procVars, notGen>>

\* an accepted example giving two units of the fail budget back
generate_single_accepted_refunds_two ==
    /\ gpc = "loop"
    /\ loop_condition
    /\ \E made \in generate_input(ref), val \in NativeVals :
          /\ made.raised = "none"
          /\ satisfied(ref, made.inputs)
          /\ order' = made.order
          /\ examples' = Append(examples,
                ExampleInstance(made.inputs, run_value(ref, val),
                                outputs(ref, made.inputs, val)))
    /\ fails' = fails - 2
    /\ called' = called \cup {Driver}
    /\ UNCHANGED <<ref, gpc, n, rejected, crashedAt, gret, graised, loaded, notGen>>

\* evaluation.py:45-49 with 72-81: generate_single runs the reference through
\* self.runner.run(inputs), in the calling process, and returns an example
generate_single_accepted ==
    /\ gpc = "loop"
    /\ loop_condition
    /\ \E made \in generate_input(ref), val \in NativeVals :
          /\ made.raised = "none"
          /\ satisfied(ref, made.inputs)
          /\ order' = made.order
          /\ examples' = Append(examples,
                ExampleInstance(made.inputs, run_value(ref, val),
                                outputs(ref, made.inputs, val)))
    /\ fails' = fails - 1
    /\ called' = called \cup {Driver}
    /\ UNCHANGED <<ref, gpc, n, rejected, crashedAt, gret, graised, loaded, notGen>>

\* the except clause returning the accumulated examples instead of []
generate_FunctionRunError_keeps ==
    /\ gpc = "loop"
    /\ fails < n /\ Len(examples) < n
    /\ \E made \in generate_input(ref) :
          /\ made.raised = "none"
          /\ satisfied(ref, made.inputs)
          /\ order' = made.order
    /\ crashedAt' = Some(Len(examples))
    /\ gret' = Some(examples)
    /\ gpc' = "done"
    /\ called' = called \cup {Driver}
    /\ UNCHANGED <<ref, n, examples, fails, rejected, graised, loaded, notGen>>

\* evaluation.py:54-56 with runner.py:246-249: the call raises, Function.run
\* re-raises it as FunctionRunError, generate logs it and returns []
generate_FunctionRunError ==
    /\ gpc = "loop"
    /\ loop_condition
    /\ \E made \in generate_input(ref) :
          /\ made.raised = "none"
          /\ satisfied(ref, made.inputs)
          /\ order' = made.order
    /\ crashedAt' = Some(Len(examples))
    /\ gret' = Some(<<>>)
    /\ gpc' = "done"
    /\ called' = called \cup {Driver}
    /\ UNCHANGED <<ref, n, examples, fails, rejected, graised, loaded, notGen>>

\* runner.py:247  self.exe(*args) in the calling process: native code that
\* crashes takes the driver down with it
generate_native_crash ==
    /\ gpc = "loop"
    /\ loop_condition
    /\ \E made \in generate_input(ref) :
          /\ made.raised = "none"
          /\ satisfied(ref, made.inputs)
          /\ order' = made.order
    /\ gpc' = "killed"
    /\ called' = called \cup {Driver}
    /\ UNCHANGED <<ref, n, examples, fails, rejected, crashedAt, gret, graised, loaded, notGen>>

\* evaluation.py:45 with 72 and 62: generate_input raises inside Generator.random;
\* generate catches FunctionRunError only, so the exception reaches the caller
generate_single_raises ==
    /\ gpc = "loop"
    /\ loop_condition
    /\ \E made \in generate_input(ref) :
          /\ made.raised # "none"
          /\ graised' = made.raised
    /\ gpc' = "raised"
    /\ UNCHANGED <<ref, n, examples, fails, rejected, crashedAt, gret, procVars, order, notGen>>

\* evaluation.py:53  return examples
generate_return ==
    /\ gpc = "loop"
    /\ ~loop_condition
    /\ gret' = Some(examples)
    /\ gpc' = "done"
    /\ UNCHANGED <<ref, n, examples, fails, rejected, crashedAt, graised, procVars, order, notGen>>

GenInit ==
    /\ ref \in Functions
    /\ gpc = "create"
    /\ n = 0
    /\ examples = <<>>
    /\ fails = 0
    /\ rejected = 0
    /\ crashedAt = None
    /\ gret = None
    /\ graised = "none"
    /\ order = <<>>

GenIdle ==
    /\ ref = FunctionX
    /\ gpc = "off"
    /\ n = 0
    /\ examples = <<>>
    /\ fails = 0
    /\ rejected = 0
    /\ crashedAt = None
    /\ gret = None
    /\ graised = "none"
    /\ order = <<>>

(***************************************************************************)
(* evaluation.Evaluator                                                    *)
(* Native values: a number, the float NaN, or a list of those.             *)
(***************************************************************************)
Num(v) == [t |-> "num", v |-> v]

NaN == [t |-> "nan", v |-> 0]

List(elems) == [t |-> "list", elems |-> elems]

\* Python's == on two scalars: NaN is equal to nothing, itself included
scalar_eq(a, b) == a.t = "num" /\ b.t = "num" /\ a.v = b.v

\* Python's == on two native values; two lists are equal when they have the
\* same length and their elements are pairwise equal
py_eq(a, b) ==
    IF a.t = "list" /\ b.t = "list"
    THEN /\ Len(a.elems) = Len(b.elems)
         /\ \A i \in DOMAIN a.elems : scalar_eq(a.elems[i], b.elems[i])
    ELSE a.t # "list" /\ b.t # "list" /\ scalar_eq(a, b)

\* math.isnan accepts a real number only (TypeError otherwise)
is_real(a) == a.t \in {"num", "nan"}

isnan(a) == a.t = "nan"

\* check_value without the NaN clause
check_value_native(expected_value, actual_value) ==
    py_eq(expected_value, actual_value)

\* evaluation.py:219-226  Evaluator.check_example.check_value
check_value(expected_value, actual_value) ==
    IF py_eq(expected_value, actual_value)
    THEN TRUE
    ELSE IF is_real(expected_value) /\ is_real(actual_value)
         THEN isnan(expected_value) = isnan(actual_value)
         ELSE FALSE

\* evaluation.py:129-133  Failure(expected, value, outputs)
Failure(expected, value, outs) ==
    [expected |-> expected, value |-> value, outputs |-> outs]

\* evaluation.py:228-242  the verdict of check_example once the candidate has
\* produced (value, actual): TRUE for None (a pass), FALSE for a Failure
check_example_passes(example, value, actual) ==
    /\ check_value(example.value, value)
    /\ \A param \in DOMAIN example.outputs :
          check_value(example.outputs[param], actual[param])

\* evaluation.py:140-148  Result(passes, tests, failures)
Result(passes_, tests, failures_) ==
    [passes |-> passes_, tests |-> tests, failures |-> failures_]

\* what a function may return, and what it may leave in an output array
ReturnVals == {Num(1), Num(2), NaN}

OutputVals == {List(<<Num(1)>>), List(<<NaN>>)}

\* the output mappings of a function without / with the output parameter o
OutputMappings(has_output) ==
    IF has_output THEN {[o |-> l] : l \in OutputVals} ELSE {<<>>}

ExampleInstances(has_output) ==
    {ExampleInstance(<<>>, value, outs) :
        value \in ReturnVals, outs \in OutputMappings(has_output)}

SeqsUpTo(S, k) == UNION {[1..m -> S] : m \in 0..k}

\* the candidates: native code about which nothing is known, and
\*   static int c = 0;  int f(int *o) { c = c + 1; o[0] = c; return c; }
Candidates == {"arbitrary", "counting"}

\* runner.py:224-259  Function.run and Function.outputs: what a call of the
\* candidate may return and leave in the output parameter, given the value of
\* its static counter; self.exe belongs to the library loaded once, by
\* ctypes.CDLL in Function.__init__ (runner.py:200), so the counter lives as
\* long as the calling process
Function_run(candidate, counter, has_output) ==
    IF candidate = "arbitrary"
    THEN {[value |-> value, outputs |-> actual] :
             value \in ReturnVals, actual \in OutputMappings(has_output)}
    ELSE {[value |-> Num(counter + 1),
           outputs |-> IF has_output THEN [o |-> List(<<Num(counter + 1)>>)] ELSE <<>>]}

\* evaluation.py:251-253  check(examples): passes = 0; failures = []
check ==
    /\ epc = "idle"
    /\ epc' = "loop"
    /\ idx' = 0
    /\ passes' = 0
    /\ failures' = <<>>
    /\ log' = <<>>
    /\ UNCHANGED <<batch, result, procVars, cand, static, first, notEval>>

\* check's loop body with the failure of a failing example left out of the list
check_example_forgets_failure ==
    /\ epc = "loop"
    /\ idx < Len(batch)
    /\ LET example == batch[idx + 1] IN
       \E ran \in Function_run(cand, static, DOMAIN example.outputs # {}) :
          LET value == ran.value
              actual == ran.outputs
              ok == check_example_passes(example, value, actual) IN
          /\ passes' = IF ok THEN passes + 1 ELSE passes
          /\ failures' = failures
          /\ log' = Append(log, [value |-> value, outputs |-> actual, pass |-> ok])
    /\ idx' = idx + 1
    /\ static' = static + 1
    /\ called' = called \cup {Driver}
    /\ UNCHANGED <<batch, epc, result, loaded, cand, first, notEval>>

\* evaluation.py:255-260 with 228-242: one example; the candidate is run by
\* self.runner.run(example.inputs), in the calling process
check_example ==
    /\ epc = "loop"
    /\ idx < Len(batch)
    /\ LET example == batch[idx + 1] IN
       \E ran \in Function_run(cand, static, DOMAIN example.outputs # {}) :
          LET value == ran.value
              actual == ran.outputs
              ok == check_example_passes(example, value, actual) IN
          /\ passes' = IF ok THEN passes + 1 ELSE passes
          /\ failures' = IF ok THEN failures
                         ELSE Append(failures, Failure(example, value, actual))
          /\ log' = Append(log, [value |-> value, outputs |-> actual, pass |-> ok])
    /\ idx' = idx + 1
    /\ static' = static + 1
    /\ called' = called \cup {Driver}
    /\ UNCHANGED <<batch, epc, result, loaded, cand, first, notEval>>

\* runner.py:246-249  the candidate cannot be called: FunctionRunError leaves
\* check_example and check (neither catches it)
check_example_FunctionRunError ==
    /\ epc = "loop"
    /\ idx < Len(batch)
    /\ epc' = "raised"
    /\ called' = called \cup {Driver}
    /\ UNCHANGED <<batch, idx, passes, failures, log, result, loaded, cand, static, first, notEval>>

\* evaluation.py:262  return Result(passes, len(examples), failures)
check_return ==
    /\ epc = "loop"
    /\ idx = Len(batch)
    /\ result' = Some(Result(passes, Len(batch), failures))
    /\ epc' = "done"
    /\ UNCHANGED <<batch, idx, passes, failures, log, procVars, cand, static, first, notEval>>

\* check called once more, with the same examples, on the same Evaluator;
\* followed for the candidate whose code is known (the calls of an arbitrary
\* candidate are as unconstrained in a second pass as in the first)
check_again ==
    /\ epc = "done"
    /\ cand # "arbitrary"
    /\ first = None
    /\ first' = result
    /\ result' = None
    /\ epc' = "loop"
    /\ idx' = 0
    /\ passes' = 0
    /\ failures' = <<>>
    /\ log' = <<>>
    /\ UNCHANGED <<batch, cand, static, procVars, notEval>>

EvalInit ==
    /\ \E has_output \in BOOLEAN :
          batch \in SeqsUpTo(ExampleInstances(has_output), MaxExamples)
    /\ epc = "idle"
    /\ idx = 0
    /\ passes = 0
    /\ failures = <<>>
    /\ log = <<>>
    /\ result = None
    /\ cand \in Candidates
    /\ static = 0
    /\ first = None

EvalIdle ==
    /\ batch = <<>>
    /\ epc = "off"
    /\ idx = 0
    /\ passes = 0
    /\ failures = <<>>
    /\ log = <<>>
    /\ result = None
    /\ cand = "arbitrary"
    /\ static = 0
    /\ first = None

(***************************************************************************)
(* Text: a Python str as the sequence of its characters.                   *)
(***************************************************************************)
Drop(s, k) == SubSeq(s, k + 1, Len(s))

Take(s, k) == SubSeq(s, 1, k)

Digits == <<"0", "1", "2", "3", "4", "5", "6", "7", "8", "9">>

DigitChars == Range(Digits)

\* the regex class \s, as far as the texts of the model go
Whitespace == {" "}

\* the number of leading characters of s that lie in chars (a greedy x*)
span(s, chars) ==
    LET stops == {i \in 1..Len(s) : s[i] \notin chars} IN
    IF stops = {} THEN Len(s)
    ELSE (CHOOSE i \in stops : \A j \in stops : i <= j) - 1

starts_with(s, word) == Len(s) >= Len(word) /\ Take(s, Len(word)) = word

\* str.index / str.rindex: 0 when c does not occur (Python raises ValueError)
index(s, c) ==
    LET at == {i \in 1..Len(s) : s[i] = c} IN
    IF at = {} THEN 0 ELSE CHOOSE i \in at : \A j \in at : i <= j

rindex(s, c) ==
    LET at == {i \in 1..Len(s) : s[i] = c} IN
    IF at = {} THEN 0 ELSE CHOOSE i \in at : \A j \in at : i >= j

\* str.strip / str.rstrip of blanks
lstrip(s) == Drop(s, span(s, Whitespace))

rstrip(s) ==
    LET keep == {i \in 1..Len(s) : s[i] \notin Whitespace} IN
    IF keep = {} THEN <<>> ELSE Take(s, CHOOSE i \in keep : \A j \in keep : i >= j)

strip(s) == lstrip(rstrip(s))

\* str.split(","): the pieces between the commas
RECURSIVE split(_)
split(s) ==
    LET at == index(s, ",") IN
    IF at = 0 THEN <<s>> ELSE <<Take(s, at - 1)>> \o split(Drop(s, at))

\* ", ".join(parts)
RECURSIVE join(_)
join(parts) ==
    IF parts = <<>> THEN <<>>
    ELSE IF Len(parts) = 1 THEN parts[1]
    ELSE parts[1] \o <<",", " ">> \o join(Tail(parts))

\* str(k) for an int k
RECURSIVE str_nat(_)
str_nat(k) ==
    IF k < 10 THEN <<Digits[k + 1]>>
    ELSE str_nat(k \div 10) \o <<Digits[(k % 10) + 1]>>

str_int(k) == IF k < 0 THEN <<"-">> \o str_nat(0 - k) ELSE str_nat(k)

\* int(digits) for a text of decimal digits
RECURSIVE int_of(_)
int_of(digits) ==
    IF digits = <<>> THEN 0
    ELSE 10 * int_of(Take(digits, Len(digits) - 1))
         + ((CHOOSE d \in 1..10 : Digits[d] = digits[Len(digits)]) - 1)

zeros(k) == [i \in 1..k |-> "0"]

(***************************************************************************)
(* Native values of the codec: Num (an int), Float (sign, decimal mantissa *)
(* m and exponent e: the value m * 10^e, m without trailing zeros), NaN,   *)
(* Bool, Str (a Python str: a char or a char array), List and NoneVal (the *)
(* None of a void return).                                                 *)
(***************************************************************************)
Float(neg, m, e) == [t |-> "float", neg |-> neg, m |-> m, e |-> e]

Bool(b) == [t |-> "bool", b |-> b]

Str(text) == [t |-> "str", text |-> text]

NoneVal == [t |-> "none", v |-> 0]

\* float(text) of "<int>.<frac>": the mantissa without its trailing zeros
RECURSIVE normal(_, _, _)
normal(neg, m, e) ==
    IF m = 0 THEN Float(FALSE, 0, 0)
    ELSE IF m % 10 = 0 THEN normal(neg, m \div 10, e + 1)
    ELSE Float(neg, m, e)

\* the keywords of the signature line and of the literals
W_True == <<"T", "r", "u", "e">>

W_False == <<"F", "a", "l", "s", "e">>

\* the text of a type name, and the type names in the order the regex of
\* CParameter.parse tries them (reference_parser.py:102)
TypeWords == <<"int", "char", "float", "double", "bool", "void">>

word(contents) ==
    CASE contents = "int"    -> <<"i", "n", "t">>
      [] contents = "char"   -> <<"c", "h", "a", "r">>
      [] contents = "float"  -> <<"f", "l", "o", "a", "t">>
      [] contents = "double" -> <<"d", "o", "u", "b", "l", "e">>
      [] contents = "bool"   -> <<"b", "o", "o", "l">>
      [] contents = "void"   -> <<"v", "o", "i", "d">>

(***************************************************************************)
(* examples.form                                                           *)
(***************************************************************************)
\* repr of a Python float: fixed notation, or exponent notation when the
\* decimal point lies more than 16 digits right or 3 zeros left of the digits
str_float(neg, m, e) ==
    LET D     == str_nat(m)
        k     == Len(D)
        decpt == k + e
        x     == decpt - 1
        fixed == IF decpt <= 0 THEN <<"0", ".">> \o zeros(0 - decpt) \o D
                 ELSE IF decpt >= k THEN D \o zeros(decpt - k) \o <<".", "0">>
                 ELSE Take(D, decpt) \o <<".">> \o Drop(D, decpt)
        expo  == <<D[1]>> \o (IF k > 1 THEN <<".">> \o Drop(D, 1) ELSE <<>>)
                 \o <<"e", IF x < 0 THEN "-" ELSE "+">>
                 \o (IF x > -10 /\ x < 10 THEN <<"0">> ELSE <<>>)
                 \o str_nat(IF x < 0 THEN 0 - x ELSE x)
    IN (IF neg THEN <<"-">> ELSE <<>>)
       \o (IF decpt <= -4 \/ decpt > 16 THEN expo ELSE fixed)

\* str(val) / repr(val) of a scalar
str_scalar(val) ==
    CASE val.t = "num"   -> str_int(val.v)
      [] val.t = "float" -> str_float(val.neg, val.m, val.e)
      [] val.t = "nan"   -> <<"n", "a", "n">>
      [] val.t = "bool"  -> IF val.b THEN W_True ELSE W_False
      [] val.t = "str"   -> val.text
      [] val.t = "none"  -> <<"N", "o", "n", "e">>

\* str(val) of any native value; a list prints as [e1, e2, ...]
str(val) ==
    CASE val.t = "list" -> <<"[">>
                           \o join([i \in DOMAIN val.elems |-> str_scalar(val.elems[i])])
                           \o <<"]">>
      [] OTHER          -> str_scalar(val)

\* examples.py:141-147  form_value
form_value(val, c_type) ==
    IF c_type = CType("char", 1) THEN <<"\"">> \o str(val) \o <<"\"">>
    ELSE IF c_type = CType("void", 0) THEN <<"_">>
    ELSE str(val)

\* examples.py:9  base_str = "({inputs}) {value} ({outputs})"
base_str(inputs, value, outs) ==
    <<"(">> \o inputs \o <<")", " ">> \o value \o <<" ", "(">> \o outs \o <<")">>

\* examples.py:23-39  ExampleInstance.form
ExampleInstance_form(example, inputs, value, outs) ==
    base_str(join([i \in DOMAIN inputs |->
                      form_value(example.inputs[inputs[i].name], inputs[i].type)]),
             form_value(example.value, value),
             join([i \in DOMAIN outs |->
                      form_value(example.outputs[outs[i].name], outs[i].type)]))

\* reference_parser.py:80-81  CType.__str__
str_CType(c_type) == word(c_type.contents) \o [i \in 1..c_type.pointer_level |-> "*"]

\* reference_parser.py:111-112  CParameter.__str__
str_CParameter(param) == str_CType(param.type) \o <<" ">> \o param.name

\* examples.py:132-138  form_ref
form_ref(inputs, value, outs) ==
    base_str(join([i \in DOMAIN inputs |-> str_CParameter(inputs[i])]),
             str_CType(value),
             join([i \in DOMAIN outs |-> str_CParameter(outs[i])]))

\* examples.py:103-129  form / form_examples
form_examples(inputs, value, outs, exs) ==
    <<form_ref(inputs, value, outs)>>
    \o [i \in DOMAIN exs |-> ExampleInstance_form(exs[i], inputs, value, outs)]

(***************************************************************************)
(* examples.parse.  A parser applied to a text gives Ok(val, rest), NoMatch *)
(* (Python's None) or Raise(exc) (the exception leaves the parser).        *)
(***************************************************************************)
Ok(val, rest) == [k |-> "ok", val |-> val, rest |-> rest]

NoMatch == [k |-> "none", val |-> NoneVal, rest |-> <<>>]

Raise(exc) == [k |-> "raise", val |-> exc, rest |-> <<>>]

\* re.match(r"\s*<c>", s): the text after the match, or NoMatch
match_char(s, c) ==
    LET r == lstrip(s) IN
    IF r # <<>> /\ r[1] = c THEN Ok(NoneVal, Tail(r)) ELSE NoMatch

\* examples.py:239-243
parse_int(s) ==
    LET r   == lstrip(s)
        neg == r # <<>> /\ r[1] = "-"
        d   == IF neg THEN Tail(r) ELSE r
        k   == span(d, DigitChars)
        v   == int_of(Take(d, k))
    IN IF k = 0 THEN NoMatch
       ELSE Ok(Num(IF neg THEN 0 - v ELSE v), Drop(d, k))

\* examples.py:246-250; without a match the code does "raise None", which
\* is a TypeError
parse_real(s) ==
    LET r    == lstrip(s)
        neg  == r # <<>> /\ r[1] = "-"
        d    == IF neg THEN Tail(r) ELSE r
        k    == span(d, DigitChars)
        f    == Drop(d, k)
        kf   == IF f # <<>> /\ f[1] = "." THEN span(Tail(f), DigitChars) ELSE 0
    IN IF k = 0 THEN Raise("TypeError")
       ELSE IF kf = 0 THEN Ok(normal(neg, int_of(Take(d, k)), 0), f)
       ELSE Ok(normal(neg, int_of(Take(d, k) \o Take(Tail(f), kf)), 0 - kf),
               Drop(f, kf + 1))

\* examples.py:253-257
parse_char(s) ==
    LET r == lstrip(s) IN
    IF Len(r) >= 3 /\ r[1] = "'" /\ r[2] \notin {"\\", "'"} /\ r[3] = "'"
    THEN Ok(Str(<<r[2]>>), Drop(r, 3))
    ELSE IF Len(r) >= 4 /\ r[1] = "'" /\ r[2] = "\\" /\ r[4] = "'"
    THEN Ok(Str(<<r[2], r[3]>>), Drop(r, 4))
    ELSE NoMatch

\* examples.py:260-264
parse_bool(s) ==
    LET r == lstrip(s) IN
    IF starts_with(r, W_True) THEN Ok(Bool(TRUE), Drop(r, Len(W_True)))
    ELSE IF starts_with(r, W_False) THEN Ok(Bool(FALSE), Drop(r, Len(W_False)))
    ELSE NoMatch

\* the position of the quote that closes (?:[^\\"]|\\.)*" scanning from i,
\* or 0 when there is none
RECURSIVE closing_quote(_, _)
closing_quote(s, i) ==
    IF i > Len(s) THEN 0
    ELSE IF s[i] = "\"" THEN i
    ELSE IF s[i] = "\\" THEN (IF i + 1 > Len(s) THEN 0 ELSE closing_quote(s, i + 2))
    ELSE closing_quote(s, i + 1)

\* examples.py:267-271
parse_string(s) ==
    LET r   == lstrip(s)
        end == closing_quote(r, 2)
    IN IF r # <<>> /\ r[1] = "\"" /\ end # 0
       THEN Ok(Str(SubSeq(r, 2, end - 1)), Drop(r, end))
       ELSE NoMatch

\* examples.py:295-305
parse_missing(s) ==
    LET m == match_char(s, "_") IN
    IF m.k = "ok" THEN Ok(NoneVal, m.rest) ELSE NoMatch

\* "if (parsed := p(s)) is None: return None", and an exception leaving p:
\* the rest of the function runs on what p parsed, if it parsed
Then(parsed, rest_of(_)) == IF parsed.k # "ok" THEN parsed ELSE rest_of(parsed)

\* an exception leaving p: the rest of the function runs unless p raised
Unless(parsed, rest_of(_)) == IF parsed.k = "raise" THEN parsed ELSE rest_of(parsed)

RECURSIVE parser_for(_, _)
RECURSIVE parse_list_loop(_, _, _)
\* examples.py:280-287  the while loop of parse_list
parse_list_loop(rem, elem, res) ==
    Unless(parser_for(elem, rem), LAMBDA inner_m :
        IF inner_m.k = "none" THEN Ok(res, rem)
        ELSE IF match_char(inner_m.rest, ",").k = "none"
        THEN Ok(Append(res, inner_m.val), inner_m.rest)
        ELSE parse_list_loop(match_char(inner_m.rest, ",").rest, elem,
                             Append(res, inner_m.val)))

\* examples.py:274-292
parse_list(s, elem) ==
    Then(match_char(s, "["), LAMBDA m :
    Then(parse_list_loop(m.rest, elem, <<>>), LAMBDA body :
    Then(match_char(body.rest, "]"), LAMBDA close :
        Ok(List(body.val), close.rest))))

\* examples.py:308-336: parser_for(c_type)(s)
parser_for(c_type, s) ==
    IF c_type.contents = "void" THEN parse_missing(s)
    ELSE IF c_type = CType("char", 1) THEN parse_string(s)
    ELSE IF c_type.pointer_level >= 1
    THEN parse_list(s, CType(c_type.contents, c_type.pointer_level - 1))
    ELSE CASE c_type.contents = "int"                 -> parse_int(s)
           [] c_type.contents \in {"float", "double"} -> parse_real(s)
           [] c_type.contents = "char"                -> parse_char(s)
           [] c_type.contents = "bool"                -> parse_bool(s)
           [] OTHER -> Raise("UnsupportedTypeError")

\* reference_parser.py:52-78  CType.parse: Ok(CType) or UnsupportedTypeError
CType_parse(type_sig) ==
    LET sig     == strip(type_sig)
        ptr_idx == index(sig, "*")
        text    == IF ptr_idx = 0 THEN sig ELSE rstrip(Take(sig, ptr_idx - 1))
        level   == Cardinality({i \in 1..Len(sig) : sig[i] = "*"})
        known   == {i \in DOMAIN TypeWords : word(TypeWords[i]) = text}
    IN IF level > 1 THEN Raise("UnsupportedTypeError")
       ELSE Ok(CType(IF known = {} THEN "unsupported"
                     ELSE TypeWords[CHOOSE i \in known : TRUE], level), <<>>)

CParameter(name, type) == [name |-> name, type |-> type]

\* reference_parser.py:93-109  CParameter.parse
CParameter_parse(param) ==
    LET fits == {i \in DOMAIN TypeWords :
                    /\ starts_with(param, word(TypeWords[i]))
                    /\ span(Drop(param, Len(word(TypeWords[i]))), {"*", " "}) >= 1}
        w    == word(TypeWords[CHOOSE i \in fits : \A j \in fits : i <= j])
        k    == Len(w) + span(Drop(param, Len(w)), {"*", " "})
    IN IF fits = {} THEN Raise("ParseError")
       ELSE Then(CType_parse(Take(param, k)), LAMBDA type :
                Ok(CParameter(Drop(param, k), type.val), <<>>))

\* the list comprehension of examples.py:206 and :208 over the split pieces
RECURSIVE parse_params(_)
parse_params(pieces) ==
    IF pieces = <<>> THEN Ok(<<>>, <<>>)
    ELSE IF strip(pieces[1]) = <<>> THEN parse_params(Tail(pieces))
    ELSE Then(CParameter_parse(strip(pieces[1])), LAMBDA param :
         Then(parse_params(Tail(pieces)), LAMBDA more :
             Ok(<<param.val>> \o more.val, <<>>)))

\* the types parser_for has a parser for
supported(c_type) ==
    c_type.contents \in {"void", "int", "float", "double", "char", "bool"}

\* examples.py:203-214  parse_sig once the three sections are cut out
parse_sections(inps, ret_text, outps) ==
    IF \/ inps[1] # "(" \/ outps[1] # "("
       \/ inps[Len(inps)] # ")" \/ outps[Len(outps)] # ")"
    THEN Raise("AssertionError")
    ELSE Then(parse_params(split(SubSeq(inps, 2, Len(inps) - 1))), LAMBDA input_params :
         Then(CType_parse(ret_text), LAMBDA ret_type :
         Then(parse_params(split(SubSeq(outps, 2, Len(outps) - 1))), LAMBDA output_params :
             IF \/ \E i \in DOMAIN input_params.val : ~supported(input_params.val[i].type)
                \/ ~supported(ret_type.val)
                \/ \E i \in DOMAIN output_params.val : ~supported(output_params.val[i].type)
             THEN Raise("UnsupportedTypeError")
             ELSE Ok([inputs |-> input_params.val, value |-> ret_type.val,
                      outputs |-> output_params.val], <<>>))))

\* examples.py:187-214  parse_sig: the types whose parsers are selected
parse_sig(s) ==
    IF index(s, ")") = 0 \/ rindex(s, "(") = 0 THEN Raise("ValueError")
    ELSE IF ~(index(s, ")") < rindex(s, "(") - 1) THEN Raise("AssertionError")
    ELSE parse_sections(strip(Take(s, index(s, ")"))),
                        strip(SubSeq(s, index(s, ")") + 1, rindex(s, "(") - 1)),
                        strip(Drop(s, rindex(s, "(") - 1)))

\* the text after an optional r"\s*," (examples.py:78-79)
after_comma(s) == IF match_char(s, ",").k = "ok" THEN match_char(s, ",").rest ELSE s

\* examples.py:70-79  the loop of parse_group over the parsers of the group
RECURSIVE parse_group_loop(_, _, _)
parse_group_loop(s, grp, grp_vals) ==
    IF grp = <<>> THEN Ok(grp_vals, s)
    ELSE Then(parser_for(grp[1].type, s), LAMBDA parsed :
             parse_group_loop(after_comma(parsed.rest), Tail(grp),
                              Bind(grp_vals, grp[1].name, parsed.val)))

\* examples.py:55-86  parse_group
parse_group(s, grp) ==
    IF index(s, "(") = 0 THEN Raise("ValueError")
    ELSE Then(parse_group_loop(Drop(s, index(s, "(")), grp, <<>>), LAMBDA vals :
         Then(match_char(vals.rest, ")"), LAMBDA m :
             Ok(vals.val, m.rest)))

\* examples.py:42-100  ExampleInstance.parse
ExampleInstance_parse(inputs, value, outs, s) ==
    Then(parse_group(s, inputs), LAMBDA input_vals :
    Then(parser_for(value, input_vals.rest), LAMBDA ret_val :
    Then(parse_group(ret_val.rest, outs), LAMBDA output_vals :
        Ok(ExampleInstance(input_vals.val, ret_val.val, output_vals.val), <<>>))))

\* examples.py:217-235  parse_examples: unparsable lines are skipped
RECURSIVE parse_examples(_, _, _, _)
parse_examples(inputs, value, outs, lines) ==
    IF lines = <<>> THEN Ok(<<>>, <<>>)
    ELSE Unless(ExampleInstance_parse(inputs, value, outs, lines[1]), LAMBDA val :
         Then(parse_examples(inputs, value, outs, Tail(lines)), LAMBDA more :
             Ok((IF val.k = "ok" THEN <<val.val>> ELSE <<>>) \o more.val, <<>>)))

\* examples.py:150-184  parse
parse(sig, lines) ==
    Then(parse_sig(sig), LAMBDA types :
        parse_examples(types.val.inputs, types.val.value, types.val.outputs, lines))

(***************************************************************************)
(* Writing a batch with examples.form and reading it back with             *)
(* examples.parse.  The references and the values are drawn from a small   *)
(* catalogue covering every supported shape.                               *)
(***************************************************************************)
\* a FunctionReference as form uses it: parameters, type and outputs()
FunctionReference(parameters, type, outs) ==
    [parameters |-> parameters, type |-> type, outputs |-> outs]

References ==
    { FunctionReference(<<CParameter(<<"a">>, CType("int", 0)),
                          CParameter(<<"b">>, CType("bool", 0))>>,
                        CType("int", 0), <<>>),
      FunctionReference(<<CParameter(<<"x">>, CType("float", 0))>>,
                        CType("double", 0), <<>>),
      FunctionReference(<<CParameter(<<"c">>, CType("char", 0))>>,
                        CType("void", 0), <<>>),
      FunctionReference(<<CParameter(<<"a">>, CType("int", 1)),
                          CParameter(<<"n">>, CType("int", 0))>>,
                        CType("void", 0),
                        <<CParameter(<<"a">>, CType("int", 1))>>),
      FunctionReference(<<CParameter(<<"s">>, CType("char", 1))>>,
                        CType("bool", 0),
                        <<CParameter(<<"s">>, CType("char", 1))>>),
      FunctionReference(<<CParameter(<<"d">>, CType("double", 1))>>,
                        CType("void", 0), <<>>) }

\* the native values of a type the model draws from
ValuesOf(c_type) ==
    IF c_type.contents = "void" THEN {NoneVal}
    ELSE IF c_type = CType("char", 1) THEN {Str(<<>>), Str(<<"h", "i">>)}
    ELSE IF c_type.pointer_level = 1
    THEN CASE c_type.contents = "int" -> {List(<<>>), List(<<Num(1), Num(-12)>>)}
           [] OTHER -> {List(<<>>), List(<<Float(FALSE, 15, -1)>>)}
    ELSE CASE c_type.contents = "int"  -> {Num(7), Num(-12)}
           [] c_type.contents = "bool" -> {Bool(TRUE), Bool(FALSE)}
           [] c_type.contents = "char" -> {Str(<<"a">>)}
           [] OTHER -> {Float(FALSE, 15, -1), Float(FALSE, 1, -5), NaN}

\* the ParameterMappings of a list of parameters
Mappings(params) ==
    IF params = <<>> THEN {<<>>}
    ELSE {f \in [{params[i].name : i \in DOMAIN params}
                 -> UNION {ValuesOf(params[i].type) : i \in DOMAIN params}] :
            \A i \in DOMAIN params : f[params[i].name] \in ValuesOf(params[i].type)}

InstancesOf(reference) ==
    {ExampleInstance(inputs, value, outs) :
        inputs \in Mappings(reference.parameters),
        value \in ValuesOf(reference.type),
        outs \in Mappings(reference.outputs)}

\* examples.py:103-121  form(reference, examples)
form ==
    /\ cpc = "start"
    /\ clines' = form_examples(cref.parameters, cref.type, cref.outputs, cbatch)
    /\ cpc' = "formed"
    /\ UNCHANGED <<cref, cbatch, cout, craised, notCodec>>

\* examples.py:150-184  parse(sig, examples) returns the list of instances
parse_returns ==
    /\ cpc = "formed"
    /\ \E vals \in {parse(clines[1], Tail(clines))} :
          vals.k = "ok" /\ cout' = vals.val
    /\ cpc' = "parsed"
    /\ UNCHANGED <<cref, cbatch, clines, craised, notCodec>>

\* examples.py:150-184  parse(sig, examples) raises
parse_raises ==
    /\ cpc = "formed"
    /\ \E vals \in {parse(clines[1], Tail(clines))} :
          vals.k = "raise" /\ craised' = vals.val
    /\ cpc' = "raised"
    /\ UNCHANGED <<cref, cbatch, clines, cout, notCodec>>

CodecInit ==
    /\ cref \in References
    /\ cbatch \in SeqsUpTo(InstancesOf(cref), MaxExamples)
    /\ clines = <<>>
    /\ cout = <<>>
    /\ craised = "none"
    /\ cpc = "start"

CodecIdle ==
    /\ cref = FunctionReference(<<>>, CType("void", 0), <<>>)
    /\ cbatch = <<>>
    /\ clines = <<>>
    /\ cout = <<>>
    /\ craised = "none"
    /\ cpc = "off"

(***************************************************************************)
(* eval.test: the benchmark run over the fetched references, and the       *)
(* partition of its results for the report.                                *)
(* A fetched reference is [tests, impls]: tests is None when building the  *)
(* reference or generating its examples raises, Some(k) when k examples    *)
(* were generated; impls holds per candidate None when its evaluation      *)
(* raises, Some(p) when check returns a Result with p passes.              *)
(***************************************************************************)
MaxRefs == 2

MaxImpls == 2

MaxTests == 1

FetchedRefs ==
    {[tests |-> None, impls |-> <<None>>]}
    \cup UNION {{[tests |-> Some(k), impls |-> impls] :
                    impls \in SeqsUpTo({None} \cup {Some(p) : p \in 0..k}, MaxImpls)} :
                k \in 0..MaxTests}

\* eval.py:361-362  the Result of a candidate: check's Result, then its name
test_implementation_result(name, passes_, tests) ==
    [name |-> name, passes |-> passes_, tests |-> tests,
     failures |-> [i \in 1..(tests - passes_) |-> "failure"]]

\* evaluation.py:150-151  Result.passed
Result_passed(r) == r.passes = r.tests

\* evaluation.py:153-154  Result.is_trivial
Result_is_trivial(r) == r.tests = 0

\* eval.py:199-201  ReferenceResult(name, results)
ReferenceResult(name, results) == [name |-> name, results |-> results]

\* eval.py:203-207  ReferenceResult.passed: any(...)
ReferenceResult_passed(rr) ==
    \E i \in DOMAIN rr.results : Result_passed(rr.results[i])

\* eval.py:209-213  ReferenceResult.is_trivial: all(...)
ReferenceResult_is_trivial(rr) ==
    \A i \in DOMAIN rr.results : Result_is_trivial(rr.results[i])

\* eval.py:250  the bucket partition puts a result in
part(rr) ==
    IF ~ReferenceResult_passed(rr) THEN "fail"
    ELSE IF ReferenceResult_is_trivial(rr) THEN "trivial"
    ELSE "pass"

\* eval.py:412-414  a reference without candidates: an empty ReferenceResult
test_no_impls ==
    /\ tpc = "loop"
    /\ ridx < Len(fetched)
    /\ fetched[ridx + 1].impls = <<>>
    /\ tresults' = Append(tresults, ReferenceResult(ridx + 1, <<>>))
    /\ ridx' = ridx + 1
    /\ UNCHANGED <<fetched, tpc, iidx, cur, partitions, pidx, notTest>>

\* eval.py:416-420, 423-424  create_from, generate or write_examples raises:
\* the except clause logs the error and nothing is appended
test_setup_raises ==
    /\ tpc = "loop"
    /\ ridx < Len(fetched)
    /\ fetched[ridx + 1].impls # <<>>
    /\ fetched[ridx + 1].tests = None
    /\ ridx' = ridx + 1
    /\ UNCHANGED <<fetched, tpc, iidx, cur, tresults, partitions, pidx, notTest>>

\* eval.py:416-422  the examples are generated; test_reference starts its
\* list comprehension over the candidates
test_setup ==
    /\ tpc = "loop"
    /\ ridx < Len(fetched)
    /\ fetched[ridx + 1].impls # <<>>
    /\ fetched[ridx + 1].tests # None
    /\ tpc' = "impls"
    /\ iidx' = 0
    /\ cur' = <<>>
    /\ UNCHANGED <<fetched, ridx, tresults, partitions, pidx, notTest>>

\* eval.py:348-366, 380  test_implementation returns the Result of a candidate
test_implementation ==
    /\ tpc = "impls"
    /\ iidx < Len(fetched[ridx + 1].impls)
    /\ fetched[ridx + 1].impls[iidx + 1] # None
    /\ cur' = Append(cur, test_implementation_result(iidx + 1,
                              fetched[ridx + 1].impls[iidx + 1][1],
                              fetched[ridx + 1].tests[1]))
    /\ iidx' = iidx + 1
    /\ UNCHANGED <<fetched, tpc, ridx, tresults, partitions, pidx, notTest>>

\* eval.py:380, 423-424  test_implementation raises: the exception leaves the
\* list comprehension and test_reference, and is caught by the except clause
\* of test, which logs it; the list built so far is lost
test_implementation_raises ==
    /\ tpc = "impls"
    /\ iidx < Len(fetched[ridx + 1].impls)
    /\ fetched[ridx + 1].impls[iidx + 1] = None
    /\ tpc' = "loop"
    /\ ridx' = ridx + 1
    /\ cur' = <<>>
    /\ UNCHANGED <<fetched, iidx, tresults, partitions, pidx, notTest>>

\* eval.py:380, 422  test_reference returns; results.append(...)
test_reference ==
    /\ tpc = "impls"
    /\ iidx = Len(fetched[ridx + 1].impls)
    /\ tresults' = Append(tresults, ReferenceResult(ridx + 1, cur))
    /\ tpc' = "loop"
    /\ ridx' = ridx + 1
    /\ cur' = <<>>
    /\ UNCHANGED <<fetched, iidx, partitions, pidx, notTest>>

\* eval.py:427  return results
test_return ==
    /\ tpc = "loop"
    /\ ridx = Len(fetched)
    /\ tpc' = "returned"
    /\ UNCHANGED <<fetched, ridx, iidx, cur, tresults, partitions, pidx, notTest>>

\* eval.py:247  partition(results)
partition ==
    /\ tpc = "returned"
    /\ tpc' = "partition"
    /\ pidx' = 0
    /\ partitions' = [p \in {"pass", "fail", "trivial"} |-> <<>>]
    /\ UNCHANGED <<fetched, ridx, iidx, cur, tresults, notTest>>

\* eval.py:249-251  one result is placed
partition_result ==
    /\ tpc = "partition"
    /\ pidx < Len(tresults)
    /\ partitions' = [partitions EXCEPT ![part(tresults[pidx + 1])] =
                          Append(@, tresults[pidx + 1])]
    /\ pidx' = pidx + 1
    /\ UNCHANGED <<fetched, tpc, ridx, iidx, cur, tresults, notTest>>

\* eval.py:253  return partitions
partition_return ==
    /\ tpc = "partition"
    /\ pidx = Len(tresults)
    /\ tpc' = "partitioned"
    /\ UNCHANGED <<fetched, ridx, iidx, cur, tresults, partitions, pidx, notTest>>

TestInit ==
    /\ fetched \in SeqsUpTo(FetchedRefs, MaxRefs)
    /\ tpc = "loop"
    /\ ridx = 0
    /\ iidx = 0
    /\ cur = <<>>
    /\ tresults = <<>>
    /\ partitions = [p \in {"pass", "fail", "trivial"} |-> <<>>]
    /\ pidx = 0

TestIdle ==
    /\ fetched = <<>>
    /\ tpc = "off"
    /\ ridx = 0
    /\ iidx = 0
    /\ cur = <<>>
    /\ tresults = <<>>
    /\ partitions = [p \in {"pass", "fail", "trivial"} |-> <<>>]
    /\ pidx = 0

RunInit ==
    /\ trial = 0
    /\ ppc = "idle"
    /\ timedOut = FALSE
    /\ seenExit = None
    /\ workers = [t \in Trials |-> NoWorker]
    /\ ret = None
    /\ raised = "none"

(***************************************************************************)
(* reference_parser.load_reference and runner.Function.__init__, on        *)
(* references whose props file names declared parameters in its output     *)
(* lines and matches ref.c in its signature.                               *)
(***************************************************************************)
\* most output lines / size lines of a props file
MaxOutputs == 2

MaxSizes == 2

\* reference_parser.py:605  default_str_size
default_str_size == 100

\* reference_parser.py:374-383  FunctionInfo(outputs, sizes, constraints),
\* without constraints
FunctionInfo(outs, sizes) == [outputs |-> outs, sizes |-> sizes]

\* list.remove(x): the list without the first element equal to x
remove(list, x) ==
    LET at == CHOOSE i \in DOMAIN list :
                  list[i] = x /\ \A j \in 1..(i - 1) : list[j] # x
    IN SubSeq(list, 1, at - 1) \o SubSeq(list, at + 1, Len(list))

\* reference_parser.py:544-557  the lookup tables of issues
param_dict(parameters) ==
    [name \in {parameters[i].name : i \in DOMAIN parameters} |->
        (CHOOSE i \in DOMAIN parameters : parameters[i].name = name)]

type_of(parameters, name) == parameters[param_dict(parameters)[name]].type

array_params(parameters) ==
    {parameters[i].name : i \in {j \in DOMAIN parameters :
                                    parameters[j].type.pointer_level = 1}}

\* reference_parser.py:573-578 with fix=True: `for output in self.info.outputs`
\* removing from the list it iterates over; i is the position of the list
\* iterator (the number of elements it has yielded)
RECURSIVE fix_outputs(_, _, _)
fix_outputs(parameters, outs, i) ==
    IF i >= Len(outs)
    THEN outs
    ELSE fix_outputs(parameters,
                     IF type_of(parameters, outs[i + 1]).pointer_level = 0
                     THEN remove(outs, outs[i + 1]) ELSE outs,
                     i + 1)

\* reference_parser.py:591-598  the test that adds GivenInvalidSize
GivenInvalidSize(parameters, size) ==
    IF size.kind = "VarSize"
    THEN type_of(parameters, size.var).contents \notin {"int"}
    ELSE size.size < 0

\* reference_parser.py:580-601 with fix=True: `for size in self.info.sizes`,
\* again removing from the list it iterates over; param_dict[var] raises
\* KeyError for a size variable that is not a parameter
RECURSIVE check_sizes(_, _, _)
check_sizes(parameters, st, i) ==
    IF i >= Len(st.sizes) \/ st.raised # "none"
    THEN st
    ELSE check_sizes(parameters,
           [sizes  |-> IF st.sizes[i + 1].arr \in array_params(parameters)
                       THEN st.sizes ELSE remove(st.sizes, st.sizes[i + 1]),
            sized  |-> st.sized \cup {st.sizes[i + 1].arr},
            raised |-> IF /\ st.sizes[i + 1].kind = "VarSize"
                          /\ st.sizes[i + 1].var \notin DOMAIN param_dict(parameters)
                       THEN "KeyError" ELSE "none",
            issues |-> IF /\ st.sizes[i + 1].kind = "VarSize" =>
                                 st.sizes[i + 1].var \in DOMAIN param_dict(parameters)
                          /\ GivenInvalidSize(parameters, st.sizes[i + 1])
                       THEN st.issues \cup {"GivenInvalidSize"} ELSE st.issues],
           i + 1)

\* reference_parser.py:603-608 with fix=True: an unsized char* gets the
\* default size, any other unsized array is an issue
default_sizes(parameters, st) ==
    LET unsized == array_params(parameters) \ st.sized
        strings == {array \in unsized : type_of(parameters, array) = CType("char", 1)}
    IN [st EXCEPT
          !.sizes = @ \o [i \in 1..Cardinality(strings) |->
                             ConstSize(CHOOSE array \in strings : TRUE, default_str_size)],
          !.issues = IF unsized = strings THEN @ ELSE @ \cup {"UnsizedArrayParameter"}]

\* reference_parser.py:531-617  FunctionReference.issues(fix=True): the
\* issues found, the FunctionInfo it leaves, and the exception it raised
issues_fix(signature, info) ==
    LET parameters == signature.parameters
        found == {x \in {"ArrayReturnType"} : signature.type.pointer_level # 0}
                 \cup {"MultiLevelPointer" : i \in {j \in DOMAIN parameters :
                                               parameters[j].type.pointer_level > 1}}
        st == default_sizes(parameters,
                 check_sizes(parameters,
                             [sizes |-> info.sizes, sized |-> {},
                              raised |-> "none", issues |-> found], 0))
    IN [issues |-> st.issues,
        raised |-> st.raised,
        info   |-> FunctionInfo(fix_outputs(parameters, info.outputs, 0), st.sizes)]

\* reference_parser.py:416-417  FunctionInfo.size: the last size given for
\* the parameter, None if there is none
FunctionInfo_size(info, name) ==
    LET given == {i \in DOMAIN info.sizes : info.sizes[i].arr = name} IN
    IF given = {} THEN None
    ELSE Some(info.sizes[CHOOSE i \in given : \A j \in given : j <= i])

\* the signatures load_reference is run on, and the size lines a props file
\* may hold for each
Signatures ==
    { [type |-> type, parameters |-> parameters] :
        type \in {CType("void", 0), CType("int", 1)},
        parameters \in
          { << CParameter("a", CType("int", 0)), CParameter("b", CType("int", 0)),
               CParameter("c", CType("int", 1)) >>,
            << CParameter("c", CType("int", 1)), CParameter("d", CType("int", 1)) >>,
            << CParameter("s", CType("char", 1)), CParameter("a", CType("int", 0)) >> } }

SizeLines(signature) ==
    LET names == DOMAIN param_dict(signature.parameters)
        arrays == array_params(signature.parameters)
    IN {ConstSize(arr, 1) : arr \in names}
       \cup {ConstSize(arr, -1) : arr \in arrays}
       \cup {VarSize(arr, var) : arr \in arrays, var \in (names \cup {"zz"})}

LoadInit ==
    /\ lsig \in Signatures
    /\ \E outs \in SeqsUpTo(DOMAIN param_dict(lsig.parameters), MaxOutputs),
          sizes \in SeqsUpTo(SizeLines(lsig), MaxSizes) :
          /\ \A i, j \in DOMAIN outs : i # j => outs[i] # outs[j]
          /\ linfo = FunctionInfo(outs, sizes)
    /\ lraised = "none"
    /\ lpc = "parsed"

\* reference_parser.py:711-727  load_reference returns: issues(fix=True)
\* found nothing that validate refuses
load_reference_returns ==
    /\ lpc = "parsed"
    /\ \E found \in {issues_fix(lsig, linfo)} :
          /\ found.raised = "none"
          /\ found.issues \subseteq ignorable
          /\ linfo' = found.info
    /\ lpc' = "returned"
    /\ UNCHANGED <<lsig, lraised, procVars, notLoad>>

\* reference_parser.py:711-727 with 619-624: issues raises KeyError, or
\* validate raises ParseError
load_reference_raises ==
    /\ lpc = "parsed"
    /\ \E found \in {issues_fix(lsig, linfo)} :
          /\ found.raised # "none" \/ ~(found.issues \subseteq ignorable)
          /\ lraised' = IF found.raised # "none" THEN found.raised ELSE "ParseError"
          /\ linfo' = found.info
    /\ lpc' = "raised"
    /\ UNCHANGED <<lsig, procVars, notLoad>>

\* runner.py:196-222  Function(reference, lib_path) on a reference as parsed:
\* the library is loaded, the symbol looked up, and for a return type other
\* than void the assertion of runner.py:216 is made
Function_init ==
    /\ lpc = "parsed"
    /\ lraised' = IF lsig.type # CType("void", 0) /\ lsig.type.pointer_level # 0
                  THEN "AssertionError" ELSE "none"
    /\ lpc' = IF lraised' = "none" THEN "built" ELSE "not_built"
    /\ loaded' = loaded \cup {Driver}
    /\ UNCHANGED <<lsig, linfo, called, notLoad>>

LoadIdle ==
    /\ lsig = [type |-> CType("void", 0), parameters |-> <<>>]
    /\ linfo = FunctionInfo(<<>>, <<>>)
    /\ lraised = "none"
    /\ lpc = "off"

(***************************************************************************)
(* Seeded generation: Python's global random generator as a seed and a     *)
(* position in the stream of that seed; two runs, one after the other.     *)
(***************************************************************************)
\* the seeds a caller may pass, and the seeds random.seed(None) may take from
\* the operating system
Seeds == {1, 2}

Entropy == {3, 4}

\* random.seed(a): the generator restarts at the beginning of the stream of a
Seeded(seed) == [seed |-> seed, pos |-> 0]

\* random.randint(lo, hi): a function of the seed and of the position
randint(rng, lo, hi) == lo + ((rng.seed * 7 + rng.pos * 5 + 1) % (hi - lo + 1))

advance(rng, k) == [rng EXCEPT !.pos = @ + k]

\* randomiser.py:62-64 with evaluation.py:100-101: random_array(length, gen)
\* drawing its elements one after the other
seeded_array(rng, length) ==
    [i \in 1..length |-> randint(advance(rng, i - 1), 0, MaxRandomInt)]

\* evaluation.py:58-64 with 83-126 and runner.py:141-146: generate_input on
\* the global generator. For a ConstSize array get_size builds a new
\* Randomiser() (runner.py:144), whose __init__ calls random.seed(None)
\* (randomiser.py:14-15): the generator is reseeded from the operating system
RECURSIVE seeded_input_from(_, _, _)
seeded_input_from(params, inputs, rng) ==
    IF params = <<>>
    THEN {[inputs |-> inputs, rng |-> rng]}
    ELSE IF ~is_array(Head(params))
    THEN seeded_input_from(Tail(params),
                           Bind(inputs, Head(params).name,
                                randint(rng, 0, MaxRandomInt)),
                           advance(rng, 1))
    ELSE IF Head(params).size[1].kind = "ConstSize"
    THEN UNION { seeded_input_from(Tail(params),
                     Bind(inputs, Head(params).name,
                          seeded_array(advance(Seeded(e), 1),
                                       randint(Seeded(e), 0, Head(params).size[1].size))),
                     advance(Seeded(e),
                             1 + randint(Seeded(e), 0, Head(params).size[1].size))) :
                   e \in Entropy }
    ELSE seeded_input_from(Tail(params),
                           Bind(inputs, Head(params).name,
                                seeded_array(rng, inputs[Head(params).size[1].var])),
                           advance(rng, inputs[Head(params).size[1].var]))

SeedInit ==
    /\ sref \in {FunctionX, FunctionArr, FunctionConst}
    /\ sseed \in [1..2 -> Seeds]
    /\ srun = 1
    /\ srng \in {Seeded(e) : e \in Entropy}
    /\ sstream = [r \in 1..2 |-> 0]
    /\ sdrawn = [r \in 1..2 |-> <<>>]
    /\ spc = "start"

\* eval.py:383-384, 407  set_seed(seed): random.seed(seed)
set_seed ==
    /\ spc = "start"
    /\ srng' = Seeded(sseed[srun])
    /\ spc' = "seeded"
    /\ UNCHANGED <<sref, sseed, srun, sstream, sdrawn, notSeed>>

\* evaluation.py:24-28  Generator.__init__: Randomiser(seed=0), i.e. random.seed(0)
Generator_init ==
    /\ spc = "seeded"
    /\ srng' = Seeded(0)
    /\ spc' = "generating"
    /\ UNCHANGED <<sref, sseed, srun, sstream, sdrawn, notSeed>>

\* evaluation.py:44-49 with 72  one turn of generate(MaxN) on a reference
\* every input of which is accepted
seeded_generate_single ==
    /\ spc = "generating"
    /\ Len(sdrawn[srun]) < MaxN
    /\ \E made \in seeded_input_from(safe_parameters(sref), <<>>, srng) :
          /\ satisfied(sref, made.inputs)
          /\ sdrawn' = [sdrawn EXCEPT ![srun] = Append(@, made.inputs)]
          /\ srng' = made.rng
    /\ sstream' = IF sdrawn[srun] = <<>>
                  THEN [sstream EXCEPT ![srun] = srng.seed] ELSE sstream
    /\ UNCHANGED <<sref, sseed, srun, spc, notSeed>>

\* evaluation.py:53  generate returns; the second run starts after the first
seeded_return ==
    /\ spc = "generating"
    /\ Len(sdrawn[srun]) = MaxN
    /\ spc' = IF srun = 1 THEN "start" ELSE "done"
    /\ srun' = IF srun = 1 THEN 2 ELSE srun
    /\ UNCHANGED <<sref, sseed, srng, sstream, sdrawn, notSeed>>

SeedIdle ==
    /\ sref = FunctionX
    /\ sseed = [r \in 1..2 |-> 1]
    /\ srun = 0
    /\ srng = Seeded(0)
    /\ sstream = [r \in 1..2 |-> 0]
    /\ sdrawn = [r \in 1..2 |-> <<>>]
    /\ spc = "off"

(***************************************************************************)
(* runner.Parameter.pack / unpack: native values to ctypes objects and back *)
(***************************************************************************)
\* longest array or string handed to pack
MaxLength == 2

\* the largest value of a C int (ctypes.c_int, 32 bits, two's complement)
INT_MAX == 2147483647

\* the characters strings are made of, with their ASCII codes
ord == [c \in {"a", "b"} |-> IF c = "a" THEN 97 ELSE 98]

\* a Python bytes object
Bytes(octets) == [t |-> "bytes", octets |-> octets]

\* str.encode("ascii")
encode(value) == Bytes([i \in DOMAIN value.text |-> ord[value.text[i]]])

\* bytes.decode()
decode(value) ==
    Str([i \in DOMAIN value.octets |->
            CHOOSE c \in DOMAIN ord : ord[c] = value.octets[i]])

\* ctypes.c_int(i): the 32 bits that hold i, as the sign bit and the low 31 bits
c_int(value) ==
    [ctype |-> "c_int", sign |-> value.v < 0,
     low |-> IF value.v < 0 THEN (value.v + INT_MAX) + 1 ELSE value.v]

\* ctypes.c_bool(b): one byte, 0 or 1
c_bool(value) == [ctype |-> "c_bool", octet |-> IF value.b THEN 1 ELSE 0]

\* ctypes.c_char(b): one byte
c_char(value) == [ctype |-> "c_char", octet |-> value.octets[1]]

\* runner.py:96-115  Parameter.primitive, applied to a value
primitive(param, value) ==
    CASE param.type.contents = "int"  -> c_int(value)
      [] param.type.contents = "bool" -> c_bool(value)
      [] param.type.contents = "char" -> c_char(value)

\* the .value of a ctypes scalar
c_value(foreign) ==
    CASE foreign.ctype = "c_int" ->
             Num(IF foreign.sign THEN (foreign.low - INT_MAX) - 1 ELSE foreign.low)
      [] foreign.ctype = "c_bool" -> Bool(foreign.octet # 0)
      [] foreign.ctype = "c_char" -> Bytes(<<foreign.octet>>)

\* the bytes of a buffer up to its first NUL: the .value of a c_char_p or of
\* a string buffer
RECURSIVE until_nul(_)
until_nul(mem) ==
    IF mem = <<>> \/ Head(mem) = 0 THEN <<>> ELSE <<Head(mem)>> \o until_nul(Tail(mem))

\* runner.py:50-51  array(): (self.primitive() * length)(*value), the cells
\* past the given values zero-initialised
array(param, value, length) ==
    [ctype |-> "array",
     cells |-> [i \in 1..length |->
                  IF i <= Len(value.elems)
                  THEN primitive(param, value.elems[i])
                  ELSE primitive(param, IF param.type.contents = "int"
                                        THEN Num(0) ELSE Bool(FALSE))]]

\* runner.py:53-60  string(): a string buffer of length + 1 bytes for an
\* output parameter, otherwise a c_char_p pointed at the NUL-terminated bytes
string(param, value, length) ==
    IF param.is_output
    THEN [ctype |-> "buffer",
          mem |-> [i \in 1..(length + 1) |->
                     IF i <= Len(value.octets) THEN value.octets[i] ELSE 0]]
    ELSE [ctype |-> "c_char_p", mem |-> value.octets \o <<0>>]

\* runner.py:32-75  Parameter.pack
pack(param, value, length) ==
    LET packed == IF param.type.contents = "char" THEN encode(value) ELSE value IN
    IF param.type.pointer_level = 0
    THEN primitive(param, packed)
    ELSE IF param.type.contents = "char"
    THEN string(param, packed, length)
    ELSE array(param, packed, length)

\* runner.py:77-94  Parameter.unpack
unpack(param, foreign) ==
    IF param.type.contents = "void"
    THEN NoneVal
    ELSE IF ~is_array(param)
    THEN c_value(foreign)
    ELSE IF param.type.contents = "char"
    THEN decode(Bytes(until_nul(foreign.mem)))
    ELSE List([i \in DOMAIN foreign.cells |-> c_value(foreign.cells[i])])

\* the native values representable in the C type of a parameter
Representable(type) ==
    LET scalars ==
          CASE type.contents = "int" ->
                   {Num(i) : i \in {(0 - INT_MAX) - 1, -1, 0, 1, INT_MAX}}
            [] type.contents = "bool" -> {Bool(b) : b \in BOOLEAN}
            [] type.contents = "char" -> {Str(<<c>>) : c \in DOMAIN ord}
    IN IF type.pointer_level = 0
       THEN scalars
       ELSE IF type.contents = "char"
       THEN {Str(text) : text \in SeqsUpTo(DOMAIN ord, MaxLength)}
       ELSE {List(elems) : elems \in
                SeqsUpTo(IF type.contents = "int"
                         THEN {Num(i) : i \in {-1, 0, 1}} ELSE scalars, MaxLength)}

\* runner.py:133-139  Parameter.get_size(value, values): with_val; None
\* stands for the AssertionError of `assert size >= len(value)`
get_size_with_val(param, value, values) ==
    IF param.size[1].kind = "ConstSize"
    THEN Some(Len(value))
    ELSE IF evaluate(param.size[1], values) >= Len(value)
    THEN Some(evaluate(param.size[1], values))
    ELSE None

PackInit ==
    /\ \E contents \in {"int", "bool", "char"}, level \in {0, 1}, out \in BOOLEAN,
          size \in {None, Some(ConstSize("x", StrSize))} :
          /\ level = 0 => ~out
          /\ size # None => (contents = "char" /\ level = 1)
          /\ kparam = Parameter("x", CType(contents, level), out, <<>>, size)
    /\ knative \in Representable(kparam.type)
    /\ kforeign = None
    /\ kback = None
    /\ kpc = "start"

\* runner.py:32-75  pack(v) for a scalar, pack(v, len(v)) for an array
call_pack ==
    /\ kpc = "start"
    /\ kforeign' = Some(pack(kparam, knative,
                             IF is_array(kparam)
                             THEN IF kparam.type.contents = "char"
                                  THEN Len(knative.text) ELSE Len(knative.elems)
                             ELSE 0))
    /\ kpc' = "packed"
    /\ UNCHANGED <<kparam, knative, kback, notPack>>

\* runner.py:234-242  setup_arg of Function.run for a sized string parameter:
\* size = parameter.get_size(native_val, params); parameter.pack(native_val, size)
setup_arg ==
    /\ kpc = "start"
    /\ kparam.size # None
    /\ Len(knative.text) <= StrSize
    /\ kforeign' = Some(pack(kparam, knative,
                             get_size_with_val(kparam, knative.text, <<>>)[1]))
    /\ kpc' = "passed"
    /\ UNCHANGED <<kparam, knative, kback, notPack>>

\* runner.py:77-94  unpack of the foreign value pack returned
call_unpack ==
    /\ kpc = "packed"
    /\ kback' = Some(unpack(kparam, kforeign[1]))
    /\ kpc' = "unpacked"
    /\ UNCHANGED <<kparam, knative, kforeign, notPack>>

PackIdle ==
    /\ kparam = Parameter("x", CType("int", 0), FALSE, <<>>, None)
    /\ knative = Num(0)
    /\ kforeign = None
    /\ kback = None
    /\ kpc = "off"

ProcInit ==
    /\ loaded = {}
    /\ called = {}

vars == <<runVars, genVars, evalVars, codecVars, testVars, packVars, loadVars, seedVars, procVars>>

InitRun == RunInit /\ ProcInit /\ GenIdle /\ EvalIdle /\ CodecIdle /\ TestIdle /\ PackIdle /\ LoadIdle /\ SeedIdle

NextRun ==
    \/ p_start
    \/ \E t \in Trials : worker_Function(t)
    \/ \E t \in Trials : worker_run(t)
    \/ \E t \in Trials : worker_put(t)
    \/ \E t \in Trials : worker_feed(t)
    \/ \E t \in Trials : worker_exit(t)
    \/ p_join_exited
    \/ p_join_timeout
    \/ p_exitcode
    \/ p_get
    \/ p_fail
    \/ next_trial

SpecRun == InitRun /\ [][NextRun]_vars

RunIdle ==
    /\ trial = 0
    /\ ppc = "off"
    /\ timedOut = FALSE
    /\ seenExit = None
    /\ workers = [t \in Trials |-> NoWorker]
    /\ ret = None
    /\ raised = "none"

Init == GenInit /\ ProcInit /\ RunIdle /\ EvalIdle /\ CodecIdle /\ TestIdle /\ PackIdle /\ LoadIdle /\ SeedIdle

Next ==
    \/ create_from
    \/ generate
    \/ generate_single_rejected
    \/ generate_single_accepted
    \/ generate_FunctionRunError
    \/ generate_native_crash
    \/ generate_single_raises
    \/ generate_return

Spec == Init /\ [][Next]_vars

InitEval == EvalInit /\ ProcInit /\ RunIdle /\ GenIdle /\ CodecIdle /\ TestIdle /\ PackIdle /\ LoadIdle /\ SeedIdle

NextEval ==
    \/ check
    \/ check_example
    \/ check_example_FunctionRunError
    \/ check_return
    \/ check_again

SpecEval == InitEval /\ [][NextEval]_vars

InitCodec == CodecInit /\ ProcInit /\ RunIdle /\ GenIdle /\ EvalIdle /\ TestIdle /\ PackIdle /\ LoadIdle /\ SeedIdle

NextCodec ==
    \/ form
    \/ parse_returns
    \/ parse_raises

SpecCodec == InitCodec /\ [][NextCodec]_vars

InitTest == TestInit /\ ProcInit /\ RunIdle /\ GenIdle /\ EvalIdle /\ CodecIdle /\ PackIdle /\ LoadIdle /\ SeedIdle

NextTest ==
    \/ test_no_impls
    \/ test_setup_raises
    \/ test_setup
    \/ test_implementation
    \/ test_implementation_raises
    \/ test_reference
    \/ test_return
    \/ partition
    \/ partition_result
    \/ partition_return

SpecTest == InitTest /\ [][NextTest]_vars

InitPack ==
    PackInit /\ ProcInit /\ RunIdle /\ GenIdle /\ EvalIdle /\ CodecIdle /\ TestIdle /\ LoadIdle /\ SeedIdle

NextPack ==
    \/ call_pack
    \/ setup_arg
    \/ call_unpack

SpecPack == InitPack /\ [][NextPack]_vars

InitLoad ==
    LoadInit /\ ProcInit /\ RunIdle /\ GenIdle /\ EvalIdle /\ CodecIdle /\ TestIdle /\ PackIdle
    /\ SeedIdle

NextLoad ==
    \/ load_reference_returns
    \/ load_reference_raises
    \/ Function_init

SpecLoad == InitLoad /\ [][NextLoad]_vars

InitSeed ==
    SeedInit /\ ProcInit /\ RunIdle /\ GenIdle /\ EvalIdle /\ CodecIdle /\ TestIdle /\ PackIdle
    /\ LoadIdle

NextSeed ==
    \/ set_seed
    \/ Generator_init
    \/ seeded_generate_single
    \/ seeded_return

SpecSeed == InitSeed /\ [][NextSeed]_vars

(***************************************************************************)
(* Properties.                                                             *)
(***************************************************************************)
\* an input binding satisfies every GlobalConstraint and every ParamConstraint
ConstraintsHold(function, inputs) ==
    /\ \A c \in Range(function.constraints) :
          Compare(inputs[c.lhs], c.op, inputs[c.rhs])
    /\ \A q \in Range(function.parameters) : \A c \in Range(q.constraints) :
          Compare(inputs[c.var], c.op, c.val)

\* two scalars match: natively equal, or NaN on both sides
ScalarsMatch(a, b) ==
    \/ (a.t = "num" /\ b.t = "num" /\ a.v = b.v)
    \/ (a.t = "nan" /\ b.t = "nan")

\* two values match: scalars that match, or lists of equal length whose
\* elements match pairwise
ValuesMatch(a, b) ==
    IF a.t = "list" /\ b.t = "list"
    THEN /\ Len(a.elems) = Len(b.elems)
         /\ \A i \in DOMAIN a.elems : ScalarsMatch(a.elems[i], b.elems[i])
    ELSE a.t # "list" /\ b.t # "list" /\ ScalarsMatch(a, b)

\* C1: writing a batch with form and reading the lines back with parse
\* returns the original batch, value for value: parse does not raise, and no
\* instance is lost or altered.
C1_RoundTrip ==
    cpc \in {"parsed", "raised"} => (cpc = "parsed" /\ cout = cbatch)

\* C2: an example passes only if the candidate's return value matches the
\* expected one and every expected output parameter matches the actual one,
\* two scalars matching only when natively equal or both NaN.
C2_PassOnlyIfAllMatch ==
    \A i \in DOMAIN log :
        log[i].pass =>
            /\ ScalarsMatch(batch[i].value, log[i].value)
            /\ \A param \in DOMAIN batch[i].outputs :
                  ValuesMatch(batch[i].outputs[param], log[i].outputs[param])

\* the outputs the candidate left are natively equal to the expected ones
SameOutputs(i) ==
    \A param \in DOMAIN batch[i].outputs :
        /\ batch[i].outputs[param] = log[i].outputs[param]
        /\ \A k \in DOMAIN batch[i].outputs[param].elems :
              batch[i].outputs[param].elems[k] # NaN

\* C3: with the outputs equal, expected NaN against actual NaN is a match,
\* expected NaN against actual 1.0 is a mismatch, and expected 1.0 against
\* actual 1.0 is a match.
C3_NaNAwareComparison ==
    \A i \in DOMAIN log :
        SameOutputs(i) =>
            /\ (batch[i].value = NaN /\ log[i].value = NaN) => log[i].pass
            /\ (batch[i].value = NaN /\ log[i].value = Num(1)) => ~log[i].pass
            /\ (batch[i].value = Num(1) /\ log[i].value = Num(1)) => log[i].pass

\* a batch in which NaN met NaN (a pass) and NaN met 1.0 (a failure)
C3_Witness ==
    /\ epc = "done"
    /\ \E i, j \in DOMAIN log :
          /\ SameOutputs(i) /\ SameOutputs(j)
          /\ batch[i].value = NaN /\ log[i].value = NaN /\ log[i].pass
          /\ batch[j].value = NaN /\ log[j].value = Num(1) /\ ~log[j].pass
          /\ result[1].passes = 1
          /\ Len(result[1].failures) = 1

\* C11: after each processed example passes + len(failures) is the number of
\* examples processed, each example counting once, and the Result check
\* returns has passes + len(failures) = tests with tests = len(examples).
C11_ResultAccounting ==
    /\ epc \in {"loop", "done", "raised"} =>
          /\ passes + Len(failures) = idx
          /\ Len(log) = idx
          /\ passes = Cardinality({i \in DOMAIN log : log[i].pass})
    /\ result # None =>
          /\ result[1].tests = Len(batch)
          /\ result[1].passes + Len(result[1].failures) = result[1].tests

\* check returned for a batch of two with one pass and one failure
C11_Witness ==
    /\ epc = "done"
    /\ Len(batch) = 2
    /\ result[1].passes = 1
    /\ Len(result[1].failures) = 1

\* C12: every result partition is given for which is_trivial() holds lies in
\* the "trivial" bucket, and in neither "pass" nor "fail".
C12_TrivialInTrivialBucket ==
    \A p \in {"pass", "fail"} :
        \A i \in DOMAIN partitions[p] : ~ReferenceResult_is_trivial(partitions[p][i])

\* C13: once test has returned, every candidate whose own evaluation did not
\* raise has its Result in the ReferenceResult of its reference, whatever
\* happened to the other candidates of that reference.
C13_OnlyThatCandidateAborted ==
    tpc = "returned" =>
        \A r \in DOMAIN fetched :
            fetched[r].tests # None =>
                \A c \in DOMAIN fetched[r].impls :
                    fetched[r].impls[c] # None =>
                        \E k \in DOMAIN tresults :
                            /\ tresults[k].name = r
                            /\ \E j \in DOMAIN tresults[k].results :
                                  tresults[k].results[j].name = c

\* C14: parse never raises: whatever the lines, parse returns a list.
C14_ParseNeverRaises == cpc # "raised" /\ craised = "none"

\* C15: safe_parameters lists every declared parameter exactly once, the
\* scalars first and the arrays after them, each group in declared order, and
\* the dict generate_input builds has its keys inserted in that order.
C15_StablePartitionOrder ==
    LET declared == ref.parameters
        safe == safe_parameters(ref)
        pos(param) == CHOOSE i \in DOMAIN declared : declared[i] = param
    IN /\ Len(safe) = Len(declared)
       /\ \A i \in DOMAIN declared : \E j \in DOMAIN safe : safe[j] = declared[i]
       /\ \A i, j \in DOMAIN safe : i < j =>
             /\ is_array(safe[i]) => is_array(safe[j])
             /\ (is_array(safe[i]) = is_array(safe[j])) => pos(safe[i]) < pos(safe[j])
       /\ order # <<>> => order = [i \in DOMAIN safe |-> safe[i].name]

\* an example was generated for f(int *p, int m, int *q, int k), whose dict
\* was filled in the order m, k, p, q
C15_Witness ==
    /\ ref = FunctionMix
    /\ examples # <<>>
    /\ order = <<"m", "k", "p", "q">>

\* C16: for a reference that passed validation, the size variable of every
\* VarSize is bound to an integer when the array's size is computed, so
\* generate_input never fails on the size of an array.
C16_SizeVariableBound == graised \notin {"AssertionError", "TypeError"}

\* C17: when the ParamConstraints of a scalar leave it no value, generate ends
\* by raising ConstraintError, with no trial rejected and no batch returned.
C17_EmptyRangeRaises ==
    (ref = FunctionEmptyRange /\ gpc \in {"done", "raised"}) =>
        (gpc = "raised" /\ graised = "ConstraintError" /\ rejected = 0)

\* C18: pack followed by unpack gives back the native value that was packed,
\* of the same kind, for every representable value of a supported type.
C18_PackUnpackLossless == kpc = "unpacked" => kback = Some(knative)

\* C19: two calls of check with the same examples on the same Evaluator give
\* the same passes and the same tests, whatever state the candidate keeps.
C19_IdempotentEvaluation ==
    (first # None /\ result # None) =>
        /\ result[1].passes = first[1].passes
        /\ result[1].tests = first[1].tests

\* C20: when run_safe has handed control back to its caller, by returning or
\* by raising, the worker it spawned is no longer running, and the worker of
\* an earlier trial is never running while a later trial is under way.
C20_NoWorkerOutlivesRunSafe ==
    /\ ppc \in {"returned", "raised"} => ~Alive(workers[trial])
    /\ \A t \in Trials : t < trial => ~Alive(workers[t])

\* C21: once load_reference has returned, no parameter of pointer level 0 is
\* left in the outputs of the reference.
C21_NoScalarOutputLeft ==
    lpc = "returned" =>
        \A i \in DOMAIN linfo.outputs :
            type_of(lsig.parameters, linfo.outputs[i]).pointer_level # 0

\* C22: load_reference returns no reference in which the variable of a
\* VarSize is anything but a declared parameter of type int, pointer level 0.
C22_SizeVariableIsIntScalar ==
    lpc = "returned" =>
        \A i \in DOMAIN linfo.sizes :
            linfo.sizes[i].kind = "VarSize" =>
                /\ linfo.sizes[i].var \in DOMAIN param_dict(lsig.parameters)
                /\ type_of(lsig.parameters, linfo.sizes[i].var) = CType("int", 0)

\* C30: once load_reference has returned, FunctionInfo.size gives a size for
\* every array parameter of the reference.
C30_EveryArraySized ==
    lpc = "returned" =>
        \A name \in array_params(lsig.parameters) :
            FunctionInfo_size(linfo, name) # None

\* load_reference returned a reference whose char* came without a size line
\* and now has the default size
C30_Witness ==
    /\ lpc = "returned"
    /\ "s" \in array_params(lsig.parameters)
    /\ linfo.sizes = <<ConstSize("s", default_str_size)>>

\* C27: Function(...) on a reference whose return type has pointer level >= 1
\* fails with UnsupportedTypeError, and the native symbol is not called.
C27_PointerReturnUnsupported ==
    (lpc \in {"built", "not_built"} /\ lsig.type.pointer_level >= 1) =>
        (lpc = "not_built" /\ lraised = "UnsupportedTypeError" /\ called = {})

\* the length Generator.random gave an array, and the value of its size
ArrayLength(i, param) == Len(examples[i].inputs[param.name])

DeclaredSize(i, param) == evaluate(param.size[1], examples[i].inputs)

NonCharArrays == {param \in Range(ref.parameters) :
                     is_array(param) /\ param.type.contents # "char"}

C25_StringShorterThanSize ==
    ref = FunctionStr =>
        \A i \in DOMAIN examples : Len(examples[i].inputs["s"]) < StrSize

\* C24: the foreign buffer Function.run builds for an output string of
\* declared size StrSize holds StrSize + 1 bytes, whatever the string.
C24_BufferHoldsSizePlusOne ==
    (kpc = "passed" /\ kparam.is_output) => Len(kforeign[1].mem) = StrSize + 1

\* C26: an example whose return value matches and whose output arrays match
\* element by element (natively equal, or NaN on both sides at the same
\* index) produces no Failure.
C26_ArraysMatchElementwise ==
    \A i \in DOMAIN log :
        (/\ ValuesMatch(batch[i].value, log[i].value)
         /\ \A param \in DOMAIN batch[i].outputs :
               ValuesMatch(batch[i].outputs[param], log[i].outputs[param]))
        => log[i].pass

\* C28: as long as every call of generate_single returns, generate(n) makes
\* at most 3n - 2 of them (each one either rejected or accepted), its loop
\* stops once that many were made, and it never holds or returns more than n
\* examples.
C28_AtMostThreeNMinusTwoCalls ==
    gpc \in {"loop", "done"} =>
        /\ rejected + Len(examples) <= 3 * n - 2
        /\ gpc = "loop" /\ rejected + Len(examples) = 3 * n - 2 => ~loop_condition
        /\ Len(examples) <= n
        /\ gret # None => Len(gret[1]) <= n

\* generate(2) returned after 4 calls: one accepted, three rejected
C28_Witness ==
    /\ gpc = "done"
    /\ crashedAt = None
    /\ n = 2
    /\ rejected + Len(examples) = 4
    /\ gret = Some(examples)

\* C29: two runs with the same seed generate the same sequence of input
\* bindings, and two runs with different seeds draw from different streams.
C29_SeedDeterminesGeneration ==
    spc = "done" =>
        /\ sseed[1] = sseed[2] => sdrawn[1] = sdrawn[2]
        /\ sseed[1] # sseed[2] => sstream[1] # sstream[2]

\* C4: every ExampleInstance accumulated or returned by Generator.generate(n)
\* has inputs that satisfy every GlobalConstraint and every ParamConstraint of
\* the function; a binding that violates one is never appended.
C4_ConstraintSatisfaction ==
    /\ \A i \in DOMAIN examples : ConstraintsHold(ref, examples[i].inputs)
    /\ gret # None =>
          \A i \in DOMAIN gret[1] : ConstraintsHold(ref, gret[1][i].inputs)

\* a constrained function for which generate returned examples after rejections
C4_Witness ==
    /\ gpc = "done"
    /\ ref = FunctionAB
    /\ rejected >= 1
    /\ gret # None
    /\ Len(gret[1]) >= 1

\* C5: native code is never loaded into or called from the driver process:
\* the driver performs no ctypes load and no native call.
C5_DriverHoldsNoNativeCode == Driver \notin loaded /\ Driver \notin called

\* C6: when the worker has exited with a non-zero status (crash, uncaught
\* exception), run_safe returns None to its caller and raises nothing.
C6_CrashReturnsNone ==
    (ppc \in {"returned", "raised"} /\ seenExit \notin {None, Some(0)})
        => (ppc = "returned" /\ raised = "none" /\ ret = None)

\* run_safe has handed back None for a worker killed by a segfault
C6_Witness ==
    /\ ppc = "returned"
    /\ workers[trial].beh = "segv"
    /\ seenExit = Some(-11)
    /\ ret = None

\* C7: when the join timeout elapsed with the worker still alive, run_safe
\* raises nothing, and returns None if the worker is still running.
C7_TimeoutReturnsNone ==
    (timedOut /\ ppc \in {"returned", "raised"})
        => (raised = "none" /\ (Alive(workers[trial]) => ret = None))

\* C8: when the worker exited with status 0, the queue holds exactly the
\* (value, outputs) tuple it enqueued at the moment of the non-blocking read,
\* and run_safe returns that tuple.
C8_ResultDelivered ==
    LET w == workers[trial]
        item == <<w.val, [out |-> w.val]>> IN
    /\ ppc = "get" => w.pipe = <<item>>
    /\ (ppc \in {"returned", "raised"} /\ seenExit = Some(0))
          => (raised = "none" /\ ret = Some(item))

\* run_safe has returned the result of a worker that exited with status 0
C8_Witness ==
    /\ ppc = "returned"
    /\ seenExit = Some(0)
    /\ ret # None

\* C9 as stated: the total number of rejected trials never exceeds n.
C9_RejectionsAtMostN == gpc \in {"loop", "done"} => rejected <= n

\* C9 amended: an accepted trial gives one unit of the fail budget back, so it
\* is the number of rejections minus the number of acceptances that never
\* exceeds n; the total number of rejections never exceeds 2n - 1; when the
\* loop stops the examples accepted so far are returned.
C9_NetRejectionsAtMostN ==
    gpc \in {"loop", "done"} =>
        /\ (crashedAt = None => fails = rejected - Len(examples))
        /\ rejected - Len(examples) <= n
        /\ rejected <= 2 * n - 1
        /\ (gpc = "done" /\ crashedAt = None) => gret = Some(examples)

\* generate has returned after more than n rejections
C9_Witness ==
    /\ gpc = "done"
    /\ rejected > n
    /\ gret = Some(examples)

\* C10 as stated: after FunctionRunError, generate raises nothing and returns
\* the k examples accumulated so far.
C10_ReturnsAccumulated ==
    crashedAt # None => (graised = "none" /\ gret = Some(examples))

\* C10 amended: after FunctionRunError, generate raises nothing and returns
\* the empty list, whatever the number k of examples accumulated so far.
C10_ReturnsEmpty ==
    crashedAt # None => (gpc = "done" /\ graised = "none" /\ gret = Some(<<>>))

\* FunctionRunError was raised with at least one example already accumulated
C10_Witness ==
    /\ crashedAt # None
    /\ crashedAt[1] >= 1
    /\ Len(examples) = crashedAt[1]
    /\ gret = Some(<<>>)

=============================================================================
